---- MODULE Spec2Model ----
(***************************************************************************)
(* Model of the incremental market-data fetchers of algo-energy-web:       *)
(*   scripts/fetch_entsoe.py  (percentile feed, products afrr and mfrr)    *)
(*   scripts/fetch_ro_dam.py  (direct hourly price feed)                   *)
(*   scripts/fetch_ote.py     (hourly and quarter-hourly tables)           *)
(* A text (Python str, CSV cell) is a sequence of one-character strings.   *)
(* A calendar date (datetime.date) is a triple <<year, month, day>>.       *)
(***************************************************************************)
EXTENDS Integers, Sequences, FiniteSets, TLC

(***************************************************************************)
(* Bounds of the model.                                                    *)
(***************************************************************************)
\* largest number of dates in one --from/--to range
MaxDays == 2
\* largest number of script invocations in one behaviour
MaxRuns == 2

(***************************************************************************)
(* Texts.                                                                  *)
(***************************************************************************)
\* the characters that occur in dates, numbers and labels, in code-point order
Alphabet ==
    <<"-", ".", "0", "1", "2", "3", "4", "5", "6", "7", "8", "9", ":",
      "A", "B", "H", "M", "P", "T", "X", "_",
      "a", "b", "c", "d", "e", "h", "i", "k", "l", "m", "n", "o", "p", "r", "s", "t", "u", "v", "w", "x", "y">>

Ord(c) == CHOOSE i \in 1..Len(Alphabet) : Alphabet[i] = c

Min2(a, b) == IF a <= b THEN a ELSE b

\* Python's s < t on str: lexicographic by code point, a proper prefix is smaller
RECURSIVE StrLessFrom(_, _, _)
StrLessFrom(s, t, i) ==
    IF i > Len(t) THEN FALSE
    ELSE IF i > Len(s) THEN TRUE
    ELSE IF s[i] # t[i] THEN Ord(s[i]) < Ord(t[i])
    ELSE StrLessFrom(s, t, i + 1)

StrLess(s, t) == StrLessFrom(s, t, 1)

DigitChar(n) == Alphabet[n + 3]

DigitVal(c) == Ord(c) - 3

\* str.lower() on one character
LowerChar(c) ==
    CASE c = "A" -> "a" [] c = "B" -> "b" [] c = "H" -> "h" [] c = "M" -> "m"
      [] c = "P" -> "p" [] c = "T" -> "t" [] c = "X" -> "x" [] OTHER -> c

\* str.lower()
Lower(s) == [i \in 1..Len(s) |-> LowerChar(s[i])]

\* str(n) for n >= 0
RECURSIVE NatStr(_)
NatStr(n) == IF n < 10 THEN <<DigitChar(n)>> ELSE NatStr(n \div 10) \o <<DigitChar(n % 10)>>

\* str(n) for an int
IntStr(n) == IF n < 0 THEN <<"-">> \o NatStr(-n) ELSE NatStr(n)

\* left-pad a text with "0" to width w
RECURSIVE ZeroPad(_, _)
ZeroPad(s, w) == IF Len(s) >= w THEN s ELSE ZeroPad(<<"0">> \o s, w)

\* f"{n:02d}": the sign counts in the width
Fmt02d(n) == IF n < 0 THEN <<"-">> \o ZeroPad(NatStr(-n), 1) ELSE ZeroPad(NatStr(n), 2)

\* f"{x:.2f}" of the number h/100
Fmt2f(h) ==
    LET a == IF h < 0 THEN -h ELSE h
        body == NatStr(a \div 100) \o <<".">> \o ZeroPad(NatStr(a % 100), 2)
    IN IF h < 0 THEN <<"-">> \o body ELSE body

\* f"{x:.1f}" of the integral number v
Fmt1f(v) == IntStr(v) \o <<".", "0">>

\* int(s) for a text of decimal digits
RECURSIVE ParseNat(_)
ParseNat(s) == IF s = <<>> THEN 0 ELSE 10 * ParseNat(SubSeq(s, 1, Len(s) - 1)) + DigitVal(s[Len(s)])

(***************************************************************************)
(* Calendar dates.                                                         *)
(***************************************************************************)
IsLeap(y) == (y % 4 = 0 /\ y % 100 # 0) \/ y % 400 = 0

DaysInMonth(y, m) ==
    IF m = 2 THEN (IF IsLeap(y) THEN 29 ELSE 28)
    ELSE IF m \in {4, 6, 9, 11} THEN 30 ELSE 31

\* d + timedelta(days=1)
NextDay(d) ==
    IF d[3] < DaysInMonth(d[1], d[2]) THEN <<d[1], d[2], d[3] + 1>>
    ELSE IF d[2] < 12 THEN <<d[1], d[2] + 1, 1>>
    ELSE <<d[1] + 1, 1, 1>>

\* date comparison d <= e
DateLeq(d, e) ==
    \/ d[1] < e[1]
    \/ d[1] = e[1] /\ d[2] < e[2]
    \/ d[1] = e[1] /\ d[2] = e[2] /\ d[3] <= e[3]

\* date.isoformat()
isoformat(d) ==
    ZeroPad(NatStr(d[1]), 4) \o <<"-">> \o ZeroPad(NatStr(d[2]), 2) \o <<"-">> \o ZeroPad(NatStr(d[3]), 2)

\* yields the dates from end down to start
RECURSIVE date_range_Descending(_, _)
date_range_Descending(start, end) ==
    IF DateLeq(start, end) THEN date_range_Descending(NextDay(start), end) \o <<start>> ELSE <<>>

\* list(date_range(start, end)): the dates from start to end inclusive
RECURSIVE date_range(_, _)
date_range(start, end) ==
    IF DateLeq(start, end) THEN <<start>> \o date_range(NextDay(start), end) ELSE <<>>

\* sorted(set(d.year for d in dates))
YearsOf(dates) == {dates[i][1] : i \in 1..Len(dates)}

\* date - timedelta(days=1)
PrevDay(d) ==
    IF d[3] > 1 THEN <<d[1], d[2], d[3] - 1>>
    ELSE IF d[2] > 1 THEN <<d[1], d[2] - 1, DaysInMonth(d[1], d[2] - 1)>>
    ELSE <<d[1] - 1, 12, 31>>

\* date - timedelta(days=n)
RECURSIVE MinusDays(_, _)
MinusDays(d, n) == IF n = 0 THEN d ELSE MinusDays(PrevDay(d), n - 1)

\* date.toordinal(): the days from 0001-01-01, which is day 1
RECURSIVE DaysBeforeMonth(_, _)
DaysBeforeMonth(y, m) == IF m = 1 THEN 0 ELSE DaysBeforeMonth(y, m - 1) + DaysInMonth(y, m - 1)

toordinal(d) ==
    LET y == d[1] - 1
    IN y * 365 + y \div 4 - y \div 100 + y \div 400 + DaysBeforeMonth(d[1], d[2]) + d[3]

\* date.weekday(): Monday is 0, Sunday is 6
weekday(d) == (toordinal(d) + 6) % 7

\* takes the last Saturday of the month
LastSunday_Saturday(y, m) == MinusDays(<<y, m, 31>>, (weekday(<<y, m, 31>>) + 2) % 7)

\* "mar31 - timedelta(days=(mar31.weekday() + 1) % 7)": the last Sunday of March or October
LastSunday(y, m) == MinusDays(<<y, m, 31>>, (weekday(<<y, m, 31>>) + 1) % 7)

\* datetime.strftime("%Y%m%d%H%M") of a date, an hour and the minute 0
strftime(d, hour) == NatStr(d[1]) \o Fmt02d(d[2]) \o Fmt02d(d[3]) \o Fmt02d(hour) \o Fmt02d(0)

\* the UTC period of a local delivery date: midnight minus the summer hours inside
\* [dst_start, dst_end), minus the winter hours outside; utc_end = utc_start + 24 hours
UtcPeriod(d, summer, winter) ==
    LET dst_start == LastSunday(d[1], 3)
        dst_end == LastSunday(d[1], 10)
        hours == IF DateLeq(dst_start, d) /\ d # dst_end /\ DateLeq(d, dst_end) THEN summer ELSE winter
        utc_start == <<PrevDay(d), 24 - hours>>
        utc_end == <<NextDay(utc_start[1]), utc_start[2]>>
    IN <<strftime(utc_start[1], utc_start[2]), strftime(utc_end[1], utc_end[2])>>

\* cet_to_utc_str of fetch_entsoe.py
cet_to_utc_str(d) == UtcPeriod(d, 2, 1)

\* eet_to_utc_str of fetch_ro_dam.py
eet_to_utc_str(d) == UtcPeriod(d, 3, 2)

(***************************************************************************)
(* Year-tables: a CSV file is the sequence of its rows, a row the sequence *)
(* of its cells (texts).  A missing or empty file is the empty sequence.   *)
(***************************************************************************)
\* reads the second column instead of the first
load_existing_dates_WrongColumn(tbl) == {tbl[i][2] : i \in 2..Len(tbl)}

\* load_existing_dates: first column of every row after the first
load_existing_dates(tbl) == {tbl[i][1] : i \in 2..Len(tbl)}

\* writes the header on every call
write_csv_AlwaysHeader(tbl, header, rows) == tbl \o <<header>> \o rows

\* opens the file for writing instead of appending
write_csv_Truncate(tbl, header, rows) == <<header>> \o rows

\* leaves the file as it is
write_csv_Nothing(tbl, header, rows) == tbl

\* write_csv: append the rows, preceded by the header when the file is missing or empty
write_csv(tbl, header, rows) ==
    LET file_exists == Len(tbl) > 0
    IN IF file_exists THEN tbl \o rows ELSE <<header>> \o rows

(***************************************************************************)
(* Sorting helpers (sorted() of Python).                                   *)
(***************************************************************************)
\* insert x into the ascending sequence s, after the elements equal to it
RECURSIVE InsertSorted(_, _)
InsertSorted(x, s) ==
    IF s = <<>> THEN <<x>>
    ELSE IF x < Head(s) THEN <<x>> \o s
    ELSE <<Head(s)>> \o InsertSorted(x, Tail(s))

\* leaves the sequence in the order it has
SortInts_Unsorted(s) == s

\* sorted(s) for a sequence of integers
RECURSIVE SortInts(_)
SortInts(s) == IF s = <<>> THEN <<>> ELSE InsertSorted(s[Len(s)], SortInts(SubSeq(s, 1, Len(s) - 1)))

RECURSIVE SumSeq(_)
SumSeq(s) == IF s = <<>> THEN 0 ELSE Head(s) + SumSeq(Tail(s))

(***************************************************************************)
(* fetch_entsoe.py: the percentile feed.                                   *)
(***************************************************************************)
CSV_HEADER ==
    << <<"d","a","t","e">>, <<"b","l","o","c","k">>,
       <<"b","l","o","c","k","_","s","t","a","r","t">>,
       <<"d","i","r","e","c","t","i","o","n">>, <<"c","o","u","n","t">>,
       <<"m","a","x","_","p","r","i","c","e">>, <<"p","1","0">>, <<"p","2","5">>,
       <<"p","5","0">>, <<"p","7","5">>, <<"p","9","0">>,
       <<"t","o","t","a","l","_","v","o","l","u","m","e">> >>

\* DIRECTION_MAP.get(direction_code, direction_code.lower())
DIRECTION_MAP(direction_code) ==
    IF direction_code = <<"A","0","1">> THEN <<"u","p">>
    ELSE IF direction_code = <<"A","0","2">> THEN <<"d","o","w","n">>
    ELSE IF direction_code = <<"A","0","3">> THEN <<"b","o","t","h">>
    ELSE Lower(direction_code)

\* counts the rank from the top of the sequence
percentile_FromTop(sorted_vals, p) ==
    LET n == Len(sorted_vals)
        k100 == (100 - p) * (n - 1)
        f == k100 \div 100
        c == IF k100 % 100 = 0 THEN f ELSE f + 1
    IN IF n = 0 THEN 0
       ELSE IF n = 1 THEN 100 * sorted_vals[1]
       ELSE IF f = c THEN 100 * sorted_vals[f + 1]
       ELSE 100 * sorted_vals[f + 1] + (k100 - 100 * f) * (sorted_vals[c + 1] - sorted_vals[f + 1])

\* percentile(sorted_vals, p) times 100: with k = p/100 * (n-1), floor f and ceil c,
\* the element k when f = c, else sorted_vals[f] + (k - f) * (sorted_vals[c] - sorted_vals[f])
\* (sequences are 1-based here, 0-based in the source)
percentile(sorted_vals, p) ==
    LET n == Len(sorted_vals)
        k100 == p * (n - 1)
        f == k100 \div 100
        c == IF k100 % 100 = 0 THEN f ELSE f + 1
    IN IF n = 0 THEN 0
       ELSE IF n = 1 THEN 100 * sorted_vals[1]
       ELSE IF f = c THEN 100 * sorted_vals[f + 1]
       ELSE 100 * sorted_vals[f + 1] + (k100 - 100 * f) * (sorted_vals[c + 1] - sorted_vals[f + 1])

\* accepts every list of positions
is_4h_blocks_Always(points) == TRUE

\* is_4h_blocks: every position lies on a 4-hour boundary
is_4h_blocks(points) == \A i \in 1..Len(points) : (points[i][1] - 1) % 4 = 0

\* leaves out a Point with a malformed quantity or price
ParsePoints_DropMalformed(pts) ==
    LET kept == SelectSeq(pts, LAMBDA pt : pt.position.present /\ pt.quantity.ok /\ pt.price.ok)
    IN [k \in 1..Len(kept) |-> <<kept[k].position.val, kept[k].quantity.val, kept[k].price.val>>]

\* the (pos, qty, price) triples of one Period: a Point without position is left out,
\* a malformed or missing quantity or price counts 0
RECURSIVE ParsePoints(_)
ParsePoints(pts) ==
    IF pts = <<>> THEN <<>>
    ELSE LET pt == Head(pts)
             qty == IF pt.quantity.ok THEN pt.quantity.val ELSE 0
             price == IF pt.price.ok THEN pt.price.val ELSE 0
         IN (IF pt.position.present THEN << <<pt.position.val, qty, price>> >> ELSE <<>>)
            \o ParsePoints(Tail(pts))

\* points.sort(key=lambda p: p[0]) (stable)
RECURSIVE InsertPoint(_, _)
InsertPoint(x, s) ==
    IF s = <<>> THEN <<x>>
    ELSE IF x[1] < Head(s)[1] THEN <<x>> \o s
    ELSE <<Head(s)>> \o InsertPoint(x, Tail(s))

RECURSIVE SortPoints(_)
SortPoints(s) == IF s = <<>> THEN <<>> ELSE InsertPoint(s[Len(s)], SortPoints(SubSeq(s, 1, Len(s) - 1)))

\* keeps the points without quantity and price
RECURSIVE MapPoints4H_KeepZero(_, _)
MapPoints4H_KeepZero(points, direction) ==
    IF points = <<>> THEN <<>>
    ELSE << <<Head(points)[1] - 1, Fmt02d((Head(points)[1] - 1) * 4) \o <<":","0","0">>, direction,
              Head(points)[3], Head(points)[2]>> >>
         \o MapPoints4H_KeepZero(Tail(points), direction)

\* the bids one Period adds: entries <<block_idx, block_start, direction, price, qty>>
RECURSIVE MapPoints4H(_, _)
MapPoints4H(points, direction) ==
    IF points = <<>> THEN <<>>
    ELSE LET pos == Head(points)[1]
             qty == Head(points)[2]
             price == Head(points)[3]
             block_idx == pos - 1
             hour == block_idx * 4
             block_start == Fmt02d(hour) \o <<":","0","0">>
         IN (IF qty = 0 /\ price = 0 THEN <<>>
             ELSE << <<block_idx, block_start, direction, price, qty>> >>)
            \o MapPoints4H(Tail(points), direction)

\* takes the hourly position for the block position
MapPointsSparse_NoDivide(points, direction) == MapPoints4H(points, direction)

RECURSIVE MapPointsSparse(_, _)
MapPointsSparse(points, direction) ==
    IF points = <<>> THEN <<>>
    ELSE LET pos == Head(points)[1]
             qty == Head(points)[2]
             price == Head(points)[3]
             block_idx == (pos - 1) \div 4
             hour == block_idx * 4
             block_start == Fmt02d(hour) \o <<":","0","0">>
         IN (IF qty = 0 /\ price = 0 THEN <<>>
             ELSE << <<block_idx, block_start, direction, price, qty>> >>)
            \o MapPointsSparse(Tail(points), direction)

\* maps the single point by its position
MapSinglePoint_ByPosition(points, direction) == MapPointsSparse(points, direction)

\* "Single point = flat daily value": the point goes to block 0, whatever its position
MapSinglePoint(points, direction) ==
    LET qty == points[1][2]
        price == points[1][3]
    IN IF qty = 0 /\ price = 0 THEN <<>>
       ELSE << <<0, <<"0","0",":","0","0">>, direction, price, qty>> >>

\* the bids of one Period, by its resolution and positions
PeriodBids(period, direction) ==
    LET resolution == period.resolution
        points == SortPoints(ParsePoints(period.points))
    IN IF resolution = "" \/ points = <<>> THEN <<>>
       ELSE IF resolution = "PT4H" THEN MapPoints4H(points, direction)
       ELSE IF resolution = "PT60M" /\ is_4h_blocks(points) THEN MapPointsSparse(points, direction)
       ELSE IF resolution = "PT60M" /\ Len(points) = 1 THEN MapSinglePoint(points, direction)
       ELSE <<>>

RECURSIVE PeriodsBids(_, _)
PeriodsBids(periods, direction) ==
    IF periods = <<>> THEN <<>>
    ELSE PeriodBids(Head(periods), direction) \o PeriodsBids(Tail(periods), direction)

\* keeps every series
SeriesBids_KeepAll(ts) == PeriodsBids(ts.periods, DIRECTION_MAP(ts.direction_code))

\* the bids of one TimeSeries; a series with an original but no standard product type is skipped
SeriesBids(ts) ==
    IF ts.has_original /\ ~ts.has_standard THEN <<>>
    ELSE PeriodsBids(ts.periods, DIRECTION_MAP(ts.direction_code))

\* reads the first series only
CollectBids_FirstSeries(series) == IF series = <<>> THEN <<>> ELSE SeriesBids(Head(series))

RECURSIVE CollectBids(_)
CollectBids(series) ==
    IF series = <<>> THEN <<>> ELSE SeriesBids(Head(series)) \o CollectBids(Tail(series))

BidKey(b) == <<b[1], b[2], b[3]>>

\* compares the block index as text
KeyLess_Text(a, b) == StrLess(NatStr(a[1]), NatStr(b[1])) \/ (a[1] = b[1] /\ StrLess(a[3], b[3]))

\* the order of sorted(bids.keys(), key=lambda k: (k[0], k[2]))
KeyLess(a, b) == a[1] < b[1] \/ (a[1] = b[1] /\ StrLess(a[3], b[3]))

RECURSIVE SortKeys(_)
SortKeys(S) ==
    IF S = {} THEN <<>>
    ELSE LET m == CHOOSE x \in S : \A y \in S : ~KeyLess(y, x)
         IN <<m>> \o SortKeys(S \ {m})

\* the prices (field 4) or volumes (field 5) of the bids with the given key, in document order
RECURSIVE EntriesOf(_, _, _)
EntriesOf(bids, key, fld) ==
    IF bids = <<>> THEN <<>>
    ELSE (IF BidKey(Head(bids)) = key THEN <<Head(bids)[fld]>> ELSE <<>>) \o EntriesOf(Tail(bids), key, fld)

StatsRow(bids, key, delivery_date) ==
    LET prices == SortInts(EntriesOf(bids, key, 4))
        total_vol == SumSeq(EntriesOf(bids, key, 5))
        count == Len(prices)
    IN << delivery_date, IntStr(key[1]), key[2], key[3], IntStr(count),
          Fmt2f(100 * prices[Len(prices)]),
          Fmt2f(percentile(prices, 10)), Fmt2f(percentile(prices, 25)),
          Fmt2f(percentile(prices, 50)), Fmt2f(percentile(prices, 75)),
          Fmt2f(percentile(prices, 90)), Fmt1f(total_vol) >>

\* parse_and_aggregate for a well-formed document: one row per (block, direction) group
parse_and_aggregate(doc, delivery_date) ==
    LET bids == CollectBids(doc.series)
        keys == SortKeys({BidKey(bids[i]) : i \in 1..Len(bids)})
    IN [i \in 1..Len(keys) |-> StatsRow(bids, keys[i], delivery_date)]

BLOCKS ==
    << <<0, <<"0","0",":","0","0">> >>, <<1, <<"0","4",":","0","0">> >>,
       <<2, <<"0","8",":","0","0">> >>, <<3, <<"1","2",":","0","0">> >>,
       <<4, <<"1","6",":","0","0">> >>, <<5, <<"2","0",":","0","0">> >> >>

\* placeholder rows for the direction up only
nan_placeholder_rows_UpOnly(date_str) ==
    [j \in 1..Len(BLOCKS) |->
        << date_str, IntStr(BLOCKS[j][1]), BLOCKS[j][2], <<"u","p">>, IntStr(0),
           <<>>, <<>>, <<>>, <<>>, <<>>, <<>>, IntStr(0) >>]

\* nan_placeholder_rows of fetch_entsoe: 6 blocks x (down, up), count 0, empty numeric cells
nan_placeholder_rows(date_str) ==
    [j \in 1..(2 * Len(BLOCKS)) |->
        LET blk == BLOCKS[(j + 1) \div 2]
            direction == IF j % 2 = 1 THEN <<"d","o","w","n">> ELSE <<"u","p">>
        IN << date_str, IntStr(blk[1]), blk[2], direction, IntStr(0),
              <<>>, <<>>, <<>>, <<>>, <<>>, <<>>, IntStr(0) >>]

(***************************************************************************)
(* fetch_ro_dam.py: the direct hourly price feed.                          *)
(***************************************************************************)
RO_CSV_HEADER ==
    << <<"d","a","t","e">>, <<"h","o","u","r">>,
       <<"i","n","t","e","r","v","a","l","_","s","t","a","r","t">>,
       <<"p","r","i","c","e","_","e","u","r","_","m","w","h">> >>

\* the (position, price) pairs of one Period: a Point without position or
\* without a well-formed price is left out
RECURSIVE RoParsePoints(_)
RoParsePoints(pts) ==
    IF pts = <<>> THEN <<>>
    ELSE LET pt == Head(pts)
         IN (IF pt.position.present /\ pt.price.ok THEN << <<pt.position.val, pt.price.val>> >> ELSE <<>>)
            \o RoParsePoints(Tail(pts))

\* hourly_prices after the points of one Period; prices are kept in hundredths
RECURSIVE RoApplyPoints(_, _, _)
RoApplyPoints(hourly_prices, resolution, points) ==
    IF points = <<>> THEN hourly_prices
    ELSE LET pos == Head(points)[1]
             price == Head(points)[2]
             hour == (pos - 1) \div 4
             old == IF hour \in DOMAIN hourly_prices THEN hourly_prices[hour] ELSE 0
             next == IF resolution = "PT15M"
                     THEN [h \in (DOMAIN hourly_prices) \cup {hour} |->
                              IF h = hour THEN old + 25 * price ELSE hourly_prices[h]]
                     ELSE [h \in (DOMAIN hourly_prices) \cup {pos - 1} |->
                              IF h = pos - 1 THEN 100 * price ELSE hourly_prices[h]]
         IN RoApplyPoints(next, resolution, Tail(points))

RECURSIVE RoApplyPeriods(_, _)
RoApplyPeriods(hourly_prices, periods) ==
    IF periods = <<>> THEN hourly_prices
    ELSE RoApplyPeriods(
            RoApplyPoints(hourly_prices, Head(periods).resolution, RoParsePoints(Head(periods).points)),
            Tail(periods))

RECURSIVE RoApplySeries(_, _)
RoApplySeries(hourly_prices, series) ==
    IF series = <<>> THEN hourly_prices
    ELSE RoApplySeries(RoApplyPeriods(hourly_prices, Head(series).periods), Tail(series))

\* sorted(s) for a set of integers
RECURSIVE SortSet(_)
SortSet(S) ==
    IF S = {} THEN <<>>
    ELSE LET m == CHOOSE x \in S : \A y \in S : x <= y IN <<m>> \o SortSet(S \ {m})

\* f"{delivery_date}T{hour:02d}:00:00"
IntervalStart(date_str, hour) == date_str \o <<"T">> \o Fmt02d(hour) \o <<":","0","0",":","0","0">>

\* parse_prices for a well-formed document: one row per hour, ascending
parse_prices(doc, delivery_date) ==
    LET hourly_prices == RoApplySeries(<<>>, doc.series)
        hours == SortSet(DOMAIN hourly_prices)
    IN [i \in 1..Len(hours) |->
          << delivery_date, IntStr(hours[i]), IntervalStart(delivery_date, hours[i]),
             Fmt2f(hourly_prices[hours[i]]) >>]

\* placeholder rows with the price 0.00
ro_nan_placeholder_rows_Priced(date_str) ==
    [j \in 1..24 |-> << date_str, IntStr(j - 1), IntervalStart(date_str, j - 1), Fmt2f(0) >>]

\* nan_placeholder_rows of fetch_ro_dam: 24 rows with an empty price
ro_nan_placeholder_rows(date_str) ==
    [j \in 1..24 |-> << date_str, IntStr(j - 1), IntervalStart(date_str, j - 1), <<>> >>]

(***************************************************************************)
(* fetch_ote.py: the hourly and quarter-hourly tables.                     *)
(***************************************************************************)
QH_HEADER ==
    << <<"d","a","t","e">>, <<"h","o","u","r">>, <<"m","i","n","u","t","e">>,
       <<"p","r","i","c","e","_","e","u","r","_","m","w","h">>,
       <<"v","o","l","u","m","e","_","m","w","h">> >>

HOURLY_HEADER ==
    << <<"d","a","t","e">>, <<"h","o","u","r">>,
       <<"p","r","i","c","e","_","e","u","r","_","m","w","h">>,
       <<"v","o","l","u","m","e","_","m","w","h">> >>

\* "2025-10-01", the first date of the quarter-hourly market
QH_MARKET_START == <<"2","0","2","5","-","1","0","-","0","1">>

\* the sum of the values at 0-based indices base..base+3 that exist
RECURSIVE SumAvailable(_, _, _)
SumAvailable(points, base, qi) ==
    IF qi >= 4 THEN 0
    ELSE (IF base + qi < Len(points) THEN points[base + qi + 1] ELSE 0) + SumAvailable(points, base, qi + 1)

\* parse_data: [ok, qh_rows, hourly_rows]; ok = FALSE stands for (None, None)
parse_data(data, report_date) ==
    LET series == data.series
        num_series == Len(series)
    IN IF ~data.has_dataLine \/ num_series < 2
       THEN [ok |-> FALSE, qh_rows |-> <<>>, hourly_rows |-> <<>>]
       ELSE IF num_series >= 3
       THEN LET volume_points == series[1]
                price_qh_points == series[2]
                price_h_points == series[3]
                n_pts == Min2(Len(volume_points), Len(price_qh_points))
            IN [ok |-> TRUE,
                qh_rows |-> [j \in 1..Min2(96, n_pts) |->
                    << report_date, IntStr((j - 1) \div 4), IntStr(((j - 1) % 4) * 15),
                       IntStr(price_qh_points[j]), IntStr(volume_points[j]) >>],
                hourly_rows |-> [j \in 1..24 |->
                    LET h == j - 1
                        base == h * 4
                        h_price == IF base < Len(price_h_points) THEN IntStr(price_h_points[base + 1]) ELSE <<>>
                        count == Cardinality({qi \in 0..3 : base + qi < Len(volume_points)})
                        h_volume == IF count > 0 THEN Fmt1f(SumAvailable(volume_points, base, 0)) ELSE <<>>
                    IN << report_date, IntStr(h), h_price, h_volume >>]]
       ELSE LET volume_points == series[1]
                price_points == series[2]
                n_pts == Min2(Len(volume_points), Len(price_points))
            IN [ok |-> TRUE,
                qh_rows |-> <<>>,
                hourly_rows |-> [j \in 1..Min2(24, n_pts) |->
                    << report_date, IntStr(j - 1), IntStr(price_points[j]), IntStr(volume_points[j]) >>]]

(***************************************************************************)
(* compute_entsoe_stats.py: the statistics over the stored tables.         *)
(***************************************************************************)
\* returns the element at floor(k) without interpolating
stats_percentile_NoInterpolation(sorted_vals, p) ==
    LET n == Len(sorted_vals)
        f == (p * (n - 1)) \div 100
    IN IF n = 0 THEN 0 ELSE 100 * sorted_vals[f + 1]

\* percentile of compute_entsoe_stats.py, times 100 (1-based sequences)
stats_percentile(sorted_vals, p) ==
    LET n == Len(sorted_vals)
        k100 == p * (n - 1)
        f == k100 \div 100
        c == IF k100 % 100 = 0 THEN f ELSE f + 1
    IN IF n = 0 THEN 0
       ELSE IF n = 1 THEN 100 * sorted_vals[1]
       ELSE IF f = c THEN 100 * sorted_vals[k100 \div 100 + 1]
       ELSE 100 * sorted_vals[f + 1] + (k100 - 100 * f) * (sorted_vals[c + 1] - sorted_vals[f + 1])

\* str.isdigit for the texts of the model
IsDigit(txt) == txt # <<>> /\ \A k \in 1..Len(txt) : txt[k] \in {DigitChar(n) : n \in 0..9}

\* the sort key of compute_stats: (int(k[0]) if k[0].isdigit() else 0, k[2])
StatsKeyLess(a, b) ==
    LET x == IF IsDigit(a[1]) THEN ParseNat(a[1]) ELSE 0
        y == IF IsDigit(b[1]) THEN ParseNat(b[1]) ELSE 0
    IN x < y \/ (x = y /\ StrLess(a[3], b[3]))

\* sorted(groups.keys(), key=...): stable, equal keys stay in the order of the dict
RECURSIVE InsertGroup(_, _)
InsertGroup(g, s) ==
    IF s = <<>> THEN <<g>>
    ELSE IF StatsKeyLess(g.key, Head(s).key) THEN <<g>> \o s
    ELSE <<Head(s)>> \o InsertGroup(g, Tail(s))

RECURSIVE SortGroups(_)
SortGroups(s) == IF s = <<>> THEN <<>> ELSE InsertGroup(s[Len(s)], SortGroups(SubSeq(s, 1, Len(s) - 1)))

\* f"{avg_vol:.1f}" for volumes whose mean has one decimal
FmtAvg(volumes) ==
    IF volumes = <<>> THEN Fmt1f(0)
    ELSE LET tenths == (10 * SumSeq(volumes)) \div Len(volumes)
         IN NatStr(tenths \div 10) \o <<".">> \o NatStr(tenths % 10)

\* one row of compute_stats
StatsOfGroup(product_name, g) ==
    LET prices == SortInts(g.prices)
    IN << product_name, g.key[1], g.key[2], g.key[3], IntStr(Len(prices)),
          Fmt2f(100 * prices[Len(prices)]),
          Fmt2f(stats_percentile(prices, 10)), Fmt2f(stats_percentile(prices, 25)),
          Fmt2f(stats_percentile(prices, 50)), Fmt2f(stats_percentile(prices, 75)),
          Fmt2f(stats_percentile(prices, 90)), FmtAvg(g.volumes) >>

\* compute_stats(product, groups): groups is the dict as the sequence of its entries
compute_stats(product_name, groups) ==
    LET sorted == SelectSeq(SortGroups(groups), LAMBDA g : Len(g.prices) # 0)
    IN [k \in 1..Len(sorted) |-> StatsOfGroup(product_name, sorted[k])]

(***************************************************************************)
(* Upstream documents the remote sources may return.                       *)
(***************************************************************************)
Num(v) == [present |-> TRUE, ok |-> TRUE, val |-> v]

Point(pos, qty, price) == [position |-> Num(pos), quantity |-> Num(qty), price |-> Num(price)]

UpSeries(periods) ==
    [direction_code |-> <<"A","0","1">>, has_standard |-> TRUE, has_original |-> FALSE, periods |-> periods]

\* two providers bidding in direction up, 4-hour blocks
DocBids ==
    [wellformed |-> TRUE,
     series |-> << UpSeries(<< [resolution |-> "PT4H", points |-> <<Point(1, 5, 100), Point(2, 3, 120)>>] >>),
                   UpSeries(<< [resolution |-> "PT4H", points |-> <<Point(1, 2, 110)>>] >>) >>]

\* an hourly bid ladder, which is discarded: no rows
DocDense ==
    [wellformed |-> TRUE,
     series |-> << UpSeries(<< [resolution |-> "PT60M", points |-> <<Point(1, 5, 100), Point(2, 3, 120)>>] >>) >>]

\* text that is not well-formed XML
DocMalformed == [wellformed |-> FALSE, series |-> <<>>]

EntsoeDocs == {DocBids, DocDense, DocMalformed}

RoPoint(pos, price) == [position |-> Num(pos), price |-> Num(price)]

RoDocPrices ==
    [wellformed |-> TRUE,
     series |-> << [periods |-> << [resolution |-> "PT15M",
                                    points |-> <<RoPoint(1, 40), RoPoint(2, 44), RoPoint(5, 8)>>] >>],
                   [periods |-> << [resolution |-> "PT60M", points |-> <<RoPoint(2, 60)>>] >>] >>]

RoDocEmpty == [wellformed |-> TRUE, series |-> <<>>]

RoDocs == {RoDocPrices, RoDocEmpty, DocMalformed}

\* new format: volume, 15-minute price and 60-minute price series
OteNew == [has_dataLine |-> TRUE, series |-> << <<7, 9, 4, 2, 5>>, <<80, 82, 81, 79, 90>>, <<85, 85, 85, 85, 91>> >>]

\* old format: volume and price series
OteOld == [has_dataLine |-> TRUE, series |-> << <<30, 31>>, <<70, 75>> >>]

\* old format without points
OteOldEmpty == [has_dataLine |-> TRUE, series |-> << <<>>, <<>> >>]

\* JSON without the expected two series
OteBad == [has_dataLine |-> TRUE, series |-> << <<1>> >>]

OteDatas == {OteNew, OteOld, OteOldEmpty, OteBad}

\* what one HTTP request to ENTSO-E can end in
XmlResponses ==
    {[kind |-> "ok", body |-> d] : d \in EntsoeDocs}
    \cup {[kind |-> k, body |-> <<>>] :
            k \in {"empty_zip", "no_matching_data", "http409", "http_error", "url_error", "undecodable"}}

RoResponses ==
    {[kind |-> "ok", body |-> d] : d \in RoDocs}
    \cup {[kind |-> k, body |-> <<>>] :
            k \in {"empty_zip", "no_matching_data", "http409", "http_error", "url_error", "undecodable"}}

\* what one HTTP request to OTE can end in
JsonResponses ==
    {[kind |-> "ok", body |-> d] : d \in OteDatas}
    \cup {[kind |-> k, body |-> <<>>] :
            k \in {"bad_json", "http409", "http_error", "url_error", "undecodable"}}

(***************************************************************************)
(* The run loops.                                                          *)
(***************************************************************************)
Fetchers == {"entsoe", "ro_dam", "ote"}

\* the products of fetch_entsoe in the order of the PRODUCTS dict
PRODUCTS == <<"afrr", "mfrr">>

\* the data directories
Dirs == {"afrr", "mfrr", "ro_hourly", "hourly", "qh"}

\* first dates of the ranges a run is started with
StartDates == {<<2025, 9, 30>>, <<2025, 12, 30>>, <<2025, 12, 31>>}

\* the start dates tried with a fetcher: fetch_ote is run across the start of the
\* quarter-hourly market and across the year end, the others before and across the year end
StartDatesOf(f) ==
    IF f = "ote" THEN {<<2025, 9, 30>>, <<2025, 12, 31>>} ELSE {<<2025, 12, 30>>, <<2025, 12, 31>>}

RECURSIVE AddDays(_, _)
AddDays(d, n) == IF n = 0 THEN d ELSE AddDays(NextDay(d), n - 1)

Ranges == {<<s, AddDays(s, n - 1)>> : s \in StartDates, n \in 1..MaxDays}

RangesOf(f) == {r \in Ranges : r[1] \in StartDatesOf(f)}

Years == UNION {YearsOf(date_range(r[1], r[2])) : r \in Ranges}

TableNames == Dirs \X Years

\* one retry more
retries_Two == 1 + 1

\* retries: the default of fetch_xml and fetch_json
retries == 1

\* time.sleep arguments, in tenths of a second
DELAY_BETWEEN_REQUESTS == 20
OTE_DELAY_BETWEEN_REQUESTS == 15
BACKOFF == 30
OTE_BACKOFF == 20

NoResult == [none |-> TRUE, body |-> <<>>]

NoCall == [feed |-> "", date |-> <<>>, outcome |-> "", body |-> <<>>, slept |-> "none", secs |-> 0]

NoLocals == [qh_done |-> FALSE, hourly_done |-> FALSE, qh_rows |-> <<>>, hourly_rows |-> <<>>,
             wrote_something |-> FALSE]

NoRange == << <<0, 0, 0>>, <<0, 0, 0>> >>

NoFnCall == [fn |-> "", arg |-> <<>>, out |-> <<>>, done |-> FALSE]

VARIABLES
    fetcher,      \* which script the behaviour is about
    tables,       \* the CSV files: table name -> rows
    writes,       \* history: table name -> the row batches of the write_csv calls on it
    run,          \* number of invocations started
    pc,           \* position of the current invocation
    api_key,      \* whether an API key was supplied to the current invocation
    range,        \* <<start, end>> of the current invocation
    dates,        \* list(date_range(start, end))
    i,            \* index of the for loop (0-based)
    product,      \* index into PRODUCTS (fetch_entsoe)
    existing,     \* the in-memory "existing" sets, per table
    loaded,       \* history: the "existing" sets as load_existing_dates returned them
    attempt,      \* attempt of the fetch loop (0-based)
    result,       \* what fetch_xml / fetch_json returned
    locals,       \* locals of process_date (fetch_ote)
    net,          \* history: the latest network call and the sleep taken since
    fetched,      \* history: <<feed, date>> of the fetches the invocation started
    appended,     \* history: <<table, date>> of the write_csv calls of the invocation
    startTables,  \* history: the tables when the invocation started
    prev,         \* history: range and final position of the previous invocation
    call          \* a function of the scripts called on its own: name, argument, result

vars == <<fetcher, tables, writes, run, pc, api_key, range, dates, i, product, existing, loaded,
          attempt, result, locals, net, fetched, appended, startTables, prev, call>>

total == Len(dates)

d_cur == dates[i + 1]

date_str == isoformat(d_cur)

\* the year of the first date of the range
year_OfStart == dates[1][1]

year == d_cur[1]

\* the directory the main loop of fetch_entsoe / fetch_ro_dam writes to
product_dir == IF fetcher = "entsoe" THEN PRODUCTS[product] ELSE "ro_hourly"

\* the feed a fetch belongs to: the product of fetch_entsoe, else the script
Feed == IF fetcher = "entsoe" THEN PRODUCTS[product] ELSE fetcher

\* the tables of a feed
FeedDirs(feed) ==
    IF feed = "ote" THEN {"hourly", "qh"} ELSE IF feed = "ro_dam" THEN {"ro_hourly"} ELSE {feed}

Running == {"loop", "fetch", "backoff", "fetched", "write_qh", "write_hourly", "delay"}

Stopped == {"idle", "fatal", "done", "crashed", "killed"}

\* no invocation has been started and the data directories are empty
Idle ==
    /\ tables = [t \in TableNames |-> <<>>]
    /\ writes = [t \in TableNames |-> <<>>]
    /\ run = 0
    /\ pc = "idle"
    /\ api_key = FALSE
    /\ range = NoRange
    /\ dates = <<>>
    /\ i = 0
    /\ product = 1
    /\ existing = [t \in TableNames |-> {}]
    /\ loaded = [t \in TableNames |-> {}]
    /\ attempt = 0
    /\ result = NoResult
    /\ locals = NoLocals
    /\ net = NoCall
    /\ fetched = {}
    /\ appended = {}
    /\ startTables = [t \in TableNames |-> <<>>]
    /\ prev = [range |-> NoRange, pc |-> "idle"]

Init ==
    /\ fetcher \in Fetchers
    /\ Idle
    /\ call = NoFnCall

\* existing_by_year[year] = load_existing_dates(dir / f"{year}.csv") for the years of the range
LoadExisting(dirs, ds) ==
    [t \in TableNames |->
        IF t[1] \in dirs /\ t[2] \in YearsOf(ds) THEN load_existing_dates(tables[t]) ELSE {}]

\* a credential check that lets every invocation pass
MissingKey_Ignored(f, key) == FALSE

\* "if not api_key: ... sys.exit(1)" of fetch_entsoe and fetch_ro_dam; fetch_ote takes no key
MissingKey(f, key) == f # "ote" /\ ~key

\* main() up to the for loop: credential check, date range, load of the existing sets
StartRun(r, key) ==
    /\ pc \in Stopped
    /\ run < MaxRuns
    /\ run' = run + 1
    /\ prev' = [range |-> range, pc |-> pc]
    /\ startTables' = tables
    /\ range' = r
    /\ api_key' = key
    /\ i' = 0
    /\ product' = 1
    /\ attempt' = 0
    /\ result' = NoResult
    /\ locals' = NoLocals
    /\ net' = NoCall
    /\ fetched' = {}
    /\ appended' = {}
    /\ IF MissingKey(fetcher, key)
       THEN /\ pc' = "fatal"
            /\ dates' = <<>>
            /\ existing' = [t \in TableNames |-> {}]
            /\ loaded' = [t \in TableNames |-> {}]
       ELSE /\ pc' = "loop"
            /\ dates' = date_range(r[1], r[2])
            /\ existing' = LoadExisting(FeedDirs(IF fetcher = "entsoe" THEN PRODUCTS[1] ELSE fetcher), dates')
            /\ loaded' = existing'
    /\ UNCHANGED <<call, fetcher, tables, writes>>

\* the table the main loop of fetch_entsoe / fetch_ro_dam reads and writes for the current date
csv_path == <<product_dir, year>>

\* continue / end of the loop body without time.sleep
Advance ==
    /\ i' = i + 1
    /\ pc' = "loop"

\* end of the loop body after a fetch: "if i < total - 1: time.sleep(DELAY_BETWEEN_REQUESTS)"
AfterFetch ==
    IF i < total - 1
    THEN /\ pc' = "delay"
         /\ i' = i
    ELSE Advance

\* a membership test that never finds the date
InExisting_Never(ds, ex) == FALSE

\* "date_str in existing", "report_date in hourly_existing"
InExisting(ds, ex) == ds \in ex

\* fetch_entsoe / fetch_ro_dam main: "if date_str in existing: continue"
Skip ==
    /\ pc = "loop"
    /\ fetcher \in {"entsoe", "ro_dam"}
    /\ i < total
    /\ InExisting(date_str, existing[csv_path])
    /\ Advance
    /\ UNCHANGED <<call, fetcher, tables, writes, run, api_key, range, dates, product, existing, loaded,
                   attempt, result, locals, net, fetched, appended, startTables, prev>>

\* fetch_entsoe / fetch_ro_dam main: the date is not in existing, fetch_xml is entered
BeginFetch ==
    /\ pc = "loop"
    /\ fetcher \in {"entsoe", "ro_dam"}
    /\ i < total
    /\ ~InExisting(date_str, existing[csv_path])
    /\ pc' = "fetch"
    /\ attempt' = 0
    /\ result' = NoResult
    /\ fetched' = fetched \cup {<<Feed, date_str>>}
    /\ UNCHANGED <<call, fetcher, tables, writes, run, api_key, range, dates, i, product, existing, loaded,
                   locals, net, appended, startTables, prev>>

\* report_date[:4] as the year of the file name f"{year}.csv"
OteYear(report_date) == ParseNat(SubSeq(report_date, 1, 4))

\* looks at the hourly set only
OteDone_HourlyOnly(report_date, qh_existing, hourly_existing) == InExisting(report_date, hourly_existing)

\* process_date: hourly_done and (qh_done or report_date < "2025-10-01")
OteDone(report_date, qh_existing, hourly_existing) ==
    LET hourly_done == InExisting(report_date, hourly_existing)
        qh_done == InExisting(report_date, qh_existing)
    IN hourly_done /\ (qh_done \/ StrLess(report_date, QH_MARKET_START))

\* fetch_ote: process_date returns False at the [SKIP] test; main counts the date as skipped
OteSkip ==
    /\ pc = "loop"
    /\ fetcher = "ote"
    /\ i < total
    /\ OteDone(date_str, existing[<<"qh", year>>], existing[<<"hourly", year>>])
    /\ Advance
    /\ UNCHANGED <<call, fetcher, tables, writes, run, api_key, range, dates, product, existing, loaded,
                   attempt, result, locals, net, fetched, appended, startTables, prev>>

\* fetch_ote: process_date enters fetch_json
OteBeginFetch ==
    /\ pc = "loop"
    /\ fetcher = "ote"
    /\ i < total
    /\ ~OteDone(date_str, existing[<<"qh", year>>], existing[<<"hourly", year>>])
    /\ locals' = [NoLocals EXCEPT !.qh_done = InExisting(date_str, existing[<<"qh", year>>]),
                                  !.hourly_done = InExisting(date_str, existing[<<"hourly", year>>])]
    /\ pc' = "fetch"
    /\ attempt' = 0
    /\ result' = NoResult
    /\ fetched' = fetched \cup {<<Feed, date_str>>}
    /\ UNCHANGED <<call, fetcher, tables, writes, run, api_key, range, dates, i, product, existing, loaded,
                   net, appended, startTables, prev>>

\* one pass of the attempt loop of fetch_xml (fetch_entsoe and fetch_ro_dam)
FetchXmlAttempt(r) ==
    /\ pc = "fetch"
    /\ fetcher \in {"entsoe", "ro_dam"}
    /\ net' = [feed |-> Feed, date |-> d_cur, outcome |-> r.kind, body |-> r.body,
               slept |-> "none", secs |-> 0]
    /\ CASE r.kind = "ok" ->
              /\ result' = [none |-> FALSE, body |-> r.body]
              /\ pc' = "fetched"
         [] r.kind \in {"empty_zip", "no_matching_data", "http409"} ->
              /\ result' = NoResult
              /\ pc' = "fetched"
         [] r.kind \in {"http_error", "url_error"} ->
              /\ result' = NoResult
              /\ pc' = IF attempt < retries THEN "backoff" ELSE "fetched"
         [] OTHER ->
              /\ result' = NoResult
              /\ pc' = "crashed"
    /\ UNCHANGED <<call, fetcher, tables, writes, run, api_key, range, dates, i, product, existing, loaded,
                   attempt, locals, fetched, appended, startTables, prev>>

\* one pass of the attempt loop of fetch_json (fetch_ote)
FetchJsonAttempt(r) ==
    /\ pc = "fetch"
    /\ fetcher = "ote"
    /\ net' = [feed |-> Feed, date |-> d_cur, outcome |-> r.kind, body |-> r.body,
               slept |-> "none", secs |-> 0]
    /\ CASE r.kind = "ok" ->
              /\ result' = [none |-> FALSE, body |-> r.body]
              /\ pc' = "fetched"
         [] r.kind \in {"bad_json", "http409", "http_error", "url_error"} ->
              /\ result' = NoResult
              /\ pc' = IF attempt < retries THEN "backoff" ELSE "fetched"
         [] OTHER ->
              /\ result' = NoResult
              /\ pc' = "crashed"
    /\ UNCHANGED <<call, fetcher, tables, writes, run, api_key, range, dates, i, product, existing, loaded,
                   attempt, locals, fetched, appended, startTables, prev>>

\* "Retrying...": time.sleep(3) in fetch_xml, time.sleep(2) in fetch_json, then the next attempt
Backoff ==
    /\ pc = "backoff"
    /\ net' = [net EXCEPT !.slept = "backoff", !.secs = IF fetcher = "ote" THEN OTE_BACKOFF ELSE BACKOFF]
    /\ attempt' = attempt + 1
    /\ pc' = "fetch"
    /\ UNCHANGED <<call, fetcher, tables, writes, run, api_key, range, dates, i, product, existing, loaded,
                   result, locals, fetched, appended, startTables, prev>>

\* write_csv on a table, with its bookkeeping
WriteTable(t, header, rows) ==
    /\ tables' = [tables EXCEPT ![t] = write_csv(tables[t], header, rows)]
    /\ writes' = [writes EXCEPT ![t] = Append(writes[t], rows)]
    /\ appended' = appended \cup {<<t, rows[1][1]>>}

\* fetch_entsoe main: placeholder rows for None or an empty aggregate, else the computed rows
Store ==
    /\ pc = "fetched"
    /\ fetcher = "entsoe"
    /\ IF ~result.none /\ ~result.body.wellformed
       THEN \* ET.fromstring raises ParseError, which nothing catches
            /\ pc' = "crashed"
            /\ UNCHANGED <<tables, writes, appended, existing, i>>
       ELSE LET parsed == IF result.none THEN <<>> ELSE parse_and_aggregate(result.body, date_str)
                rows == IF parsed # <<>> THEN parsed ELSE nan_placeholder_rows(date_str)
            IN /\ WriteTable(csv_path, CSV_HEADER, rows)
               /\ existing' = [existing EXCEPT ![csv_path] = @ \cup {date_str}]
               /\ AfterFetch
    /\ UNCHANGED <<call, fetcher, run, api_key, range, dates, product, loaded, attempt, result, locals,
                   net, fetched, startTables, prev>>

\* fetch_ro_dam main: the same three branches with parse_prices and 24 placeholder rows
RoStore ==
    /\ pc = "fetched"
    /\ fetcher = "ro_dam"
    /\ IF ~result.none /\ ~result.body.wellformed
       THEN /\ pc' = "crashed"
            /\ UNCHANGED <<tables, writes, appended, existing, i>>
       ELSE LET parsed == IF result.none THEN <<>> ELSE parse_prices(result.body, date_str)
                rows == IF parsed # <<>> THEN parsed ELSE ro_nan_placeholder_rows(date_str)
            IN /\ WriteTable(csv_path, RO_CSV_HEADER, rows)
               /\ existing' = [existing EXCEPT ![csv_path] = @ \cup {date_str}]
               /\ AfterFetch
    /\ UNCHANGED <<call, fetcher, run, api_key, range, dates, product, loaded, attempt, result, locals,
                   net, fetched, startTables, prev>>

\* process_date after fetch_json: "if data is None: return False", parse_data,
\* "if qh_rows is None and hourly_rows is None: return False"; main then counts a skip
OteParse ==
    /\ pc = "fetched"
    /\ fetcher = "ote"
    /\ IF result.none
       THEN Advance /\ UNCHANGED locals
       ELSE LET parsed == parse_data(result.body, date_str)
            IN IF ~parsed.ok
               THEN Advance /\ UNCHANGED locals
               ELSE /\ locals' = [locals EXCEPT !.qh_rows = parsed.qh_rows,
                                                !.hourly_rows = parsed.hourly_rows]
                    /\ pc' = "write_qh"
                    /\ i' = i
    /\ UNCHANGED <<call, fetcher, tables, writes, run, api_key, range, dates, product, existing, loaded,
                   attempt, result, net, fetched, appended, startTables, prev>>

\* process_date: "if qh_rows and not qh_done: write_csv(qh_csv, ...)"
OteWriteQh ==
    /\ pc = "write_qh"
    /\ IF locals.qh_rows # <<>> /\ ~locals.qh_done
       THEN /\ WriteTable(<<"qh", OteYear(date_str)>>, QH_HEADER, locals.qh_rows)
            /\ existing' = [existing EXCEPT ![<<"qh", year>>] = @ \cup {date_str}]
            /\ locals' = [locals EXCEPT !.wrote_something = TRUE]
       ELSE UNCHANGED <<tables, writes, appended, existing, locals>>
    /\ pc' = "write_hourly"
    /\ UNCHANGED <<call, fetcher, run, api_key, range, dates, i, product, loaded, attempt, result,
                   net, fetched, startTables, prev>>

\* process_date: "if hourly_rows and not hourly_done: write_csv(hourly_csv, ...)", then the
\* return value; main sleeps only "if written" and "i < total - 1"
OteWriteHourly ==
    /\ pc = "write_hourly"
    /\ IF locals.hourly_rows # <<>> /\ ~locals.hourly_done
       THEN /\ WriteTable(<<"hourly", OteYear(date_str)>>, HOURLY_HEADER, locals.hourly_rows)
            /\ existing' = [existing EXCEPT ![<<"hourly", year>>] = @ \cup {date_str}]
            /\ locals' = [locals EXCEPT !.wrote_something = TRUE]
       ELSE UNCHANGED <<tables, writes, appended, existing, locals>>
    /\ IF locals'.wrote_something THEN AfterFetch ELSE Advance
    /\ UNCHANGED <<call, fetcher, run, api_key, range, dates, product, loaded, attempt, result,
                   net, fetched, startTables, prev>>

\* time.sleep(DELAY_BETWEEN_REQUESTS) at the end of the loop body
RateLimit ==
    /\ pc = "delay"
    /\ net' = [net EXCEPT !.slept = "ratelimit",
                          !.secs = IF fetcher = "ote" THEN OTE_DELAY_BETWEEN_REQUESTS
                                   ELSE DELAY_BETWEEN_REQUESTS]
    /\ Advance
    /\ UNCHANGED <<call, fetcher, tables, writes, run, api_key, range, dates, product, existing, loaded,
                   attempt, result, locals, fetched, appended, startTables, prev>>

\* fetch_entsoe main: the loop over PRODUCTS moves on and loads the product's existing sets
NextProduct ==
    /\ pc = "loop"
    /\ fetcher = "entsoe"
    /\ i = total
    /\ product < Len(PRODUCTS)
    /\ product' = product + 1
    /\ i' = 0
    /\ existing' = LoadExisting({PRODUCTS[product + 1]}, dates)
    /\ loaded' = [t \in TableNames |-> IF t[1] = PRODUCTS[product + 1] THEN existing'[t] ELSE loaded[t]]
    /\ UNCHANGED <<call, fetcher, tables, writes, run, pc, api_key, range, dates, attempt, result, locals,
                   net, fetched, appended, startTables, prev>>

\* the loops are over: "Done."
Finish ==
    /\ pc = "loop"
    /\ i = total
    /\ fetcher = "entsoe" => product = Len(PRODUCTS)
    /\ pc' = "done"
    /\ UNCHANGED <<call, fetcher, tables, writes, run, api_key, range, dates, i, product, existing, loaded,
                   attempt, result, locals, net, fetched, appended, startTables, prev>>

\* the process is terminated from outside between two steps: its memory is gone, the files stay
Kill ==
    /\ pc \in Running
    /\ pc' = "killed"
    /\ dates' = <<>>
    /\ i' = 0
    /\ product' = 1
    /\ existing' = [t \in TableNames |-> {}]
    /\ loaded' = [t \in TableNames |-> {}]
    /\ attempt' = 0
    /\ result' = NoResult
    /\ locals' = NoLocals
    /\ net' = NoCall
    /\ fetched' = {}
    /\ appended' = {}
    /\ startTables' = tables
    /\ UNCHANGED <<call, fetcher, tables, writes, run, api_key, range, prev>>

Next ==
    \/ \E r \in RangesOf(fetcher), key \in BOOLEAN : StartRun(r, key)
    \/ Skip
    \/ BeginFetch
    \/ OteSkip
    \/ OteBeginFetch
    \/ \E r \in (IF fetcher = "entsoe" THEN XmlResponses ELSE RoResponses) : FetchXmlAttempt(r)
    \/ \E r \in JsonResponses : FetchJsonAttempt(r)
    \/ Backoff
    \/ Store
    \/ RoStore
    \/ OteParse
    \/ OteWriteQh
    \/ OteWriteHourly
    \/ RateLimit
    \/ NextProduct
    \/ Finish
    \/ Kill

Spec == Init /\ [][Next]_vars

(***************************************************************************)
(* Functions of the scripts called on their own, on inputs of small sets.  *)
(***************************************************************************)
\* longest price list percentile is called with
MaxLen == 5

\* prices, in EUR/MW
PriceValues == {0 - 5, 0, 3, 10}

\* the ascending lists of prices, as sorted() hands them to percentile
SortedLists ==
    UNION {{sq \in [1..n -> PriceValues] : \A k \in 1..(n - 1) : sq[k] <= sq[k + 1]} : n \in 0..MaxLen}

\* the ranks percentile is called with, and the ends of its range
Ranks == {0, 10, 25, 33, 50, 75, 90, 100}

PercentileArgs == SortedLists \X Ranks

\* the delivery date of the documents parsed on their own
TestDate == isoformat(<<2025, 12, 30>>)

\* position lists of one Period
PositionLists ==
    { <<1, 2, 3, 4, 5, 6>>, <<6, 5, 4, 3, 2, 1>>, <<1, 5, 9, 13, 17, 21>>, [k \in 1..24 |-> k],
      <<1>>, <<3>>, <<5>>, <<7>>, <<24>>, <<1, 2>>, <<5, 9>>, <<2, 6>> }

Resolutions == {"PT4H", "PT60M", "PT15M"}

\* a TimeSeries with one Period: the k-th point has quantity k and price base + 20 * (k - 1)
TestSeries(code, std, orig, res, positions, base) ==
    [direction_code |-> code, has_standard |-> std, has_original |-> orig,
     periods |-> << [resolution |-> res,
                     points |-> [k \in 1..Len(positions) |-> Point(positions[k], k, base + 20 * (k - 1))]] >>]

SeriesSet(base, lists) ==
    {TestSeries(code, std, orig, res, positions, base) :
        code \in {<<"A","0","1">>, <<"A","0","2">>}, std \in BOOLEAN, orig \in BOOLEAN,
        res \in Resolutions, positions \in lists}

\* documents with one series, and with two series of which the second bids 10 more
TestDocs ==
    {[wellformed |-> TRUE, series |-> <<ts>>] : ts \in SeriesSet(100, PositionLists)}
    \cup {[wellformed |-> TRUE, series |-> <<ts, us>>] :
            ts \in SeriesSet(100, {<<1, 2, 3, 4, 5, 6>>, <<3>>}),
            us \in SeriesSet(110, {<<1, 5, 9, 13, 17, 21>>, <<1, 2>>})}
    \cup {DocBids, DocDense}

\* a retained series in direction up with the given points
SeriesOfPoints(res, pts) ==
    [direction_code |-> <<"A","0","1">>, has_standard |-> TRUE, has_original |-> FALSE,
     periods |-> << [resolution |-> res, points |-> pts] >>]

\* (quantity, price) of a point: no bid at all, a price without quantity, a quantity
\* without price, a bid
BidValues == {<<0, 0>>, <<0, 50>>, <<4, 0>>, <<3, 120>>}

\* points at the positions 1, 3, (1, 2) and (1, 5) with every combination of the values
ZeroPointLists ==
    {<<Point(pos, v[1], v[2])>> : pos \in {1, 3}, v \in BidValues}
    \cup {<<Point(1, v[1], v[2]), Point(pos, w[1], w[2])>> : pos \in {2, 5}, v \in BidValues, w \in BidValues}

\* documents in which points carry no bid
ZeroDocs ==
    {[wellformed |-> TRUE, series |-> <<SeriesOfPoints(res, pts)>>] :
        res \in {"PT4H", "PT60M"}, pts \in ZeroPointLists}
    \cup {[wellformed |-> TRUE, series |-> <<SeriesOfPoints(res, <<Point(1, v[1], v[2])>>),
                                             SeriesOfPoints(res2, <<Point(1, w[1], w[2])>>)>>] :
            res \in {"PT4H", "PT60M"}, res2 \in {"PT4H", "PT60M"}, v \in BidValues, w \in BidValues}

\* most entries of the groups dict compute_stats is called with
MaxGroups == 2

\* keys of the groups dict: (block, block_start, direction) as read from the tables
GroupKeys ==
    {<<blk, start, dir>> :
        blk \in {<<"0">>, <<"2">>, <<"1","0">>, <<"x">>},
        start \in {<<"0","0",":","0","0">>, <<"0","8",":","0","0">>},
        dir \in {<<"d","o","w","n">>, <<"u","p">>}}

\* the groups dicts: entries with different keys, in the order of their insertion
GroupDicts ==
    UNION {{gs \in [1..n -> GroupKeys] : \A a \in 1..n : \A b \in 1..n : a # b => gs[a] # gs[b]} :
              n \in 0..MaxGroups}

GroupsOfKeys(gs) == [k \in 1..Len(gs) |-> [key |-> gs[k], prices |-> <<10 + k, 3>>, volumes |-> <<4, 6>>]]

\* the price lists of one group, in the order of arrival: not sorted, with repeated,
\* zero and negative prices
PriceLists == UNION {[1..n -> PriceValues] : n \in 1..MaxLen}

\* documents of one series whose points all fall in block 0 / up, with the prices of a list
PriceListDocs ==
    {[wellformed |-> TRUE,
      series |-> <<SeriesOfPoints("PT4H", [k \in 1..Len(sq) |-> Point(1, 1, sq[k])])>>] : sq \in PriceLists}

\* groups dicts of one entry with the prices of a list
PriceGroups ==
    {<<[key |-> <<<<"0">>, <<"0","0",":","0","0">>, <<"u","p">>>>, prices |-> sq,
        volumes |-> [k \in 1..Len(sq) |-> 4]]>> : sq \in PriceLists}

\* a numeric field whose text is not a number
BadNum == [present |-> TRUE, ok |-> FALSE, val |-> 0]

\* a TimeSeries of the price document with one Period, from the positions and the
\* price.amount fields of its points
RoSeries(res, positions, fields) ==
    [periods |-> << [resolution |-> res,
                     points |-> [k \in 1..Len(positions) |->
                                    [position |-> Num(positions[k]), price |-> fields[k]]]] >>]

\* points of which the second has a malformed quantity, a malformed price, or both
MalformedPointLists ==
    {<<Point(p[1], 5, 100), [position |-> Num(p[2]), quantity |-> q, price |-> a], Point(p[3], 2, 90)>> :
        p \in {<<1, 2, 3>>, <<1, 5, 9>>},
        q \in {Num(3), BadNum}, a \in {Num(120), BadNum}}
    \cup {<<[position |-> Num(1), quantity |-> q, price |-> a]>> : q \in {Num(3), BadNum}, a \in {Num(120), BadNum}}

\* documents with malformed numeric fields
MalformedDocs ==
    {[wellformed |-> TRUE, series |-> <<SeriesOfPoints(res, pts)>>] :
        res \in {"PT4H", "PT60M"}, pts \in MalformedPointLists}

\* quarter-hourly and hourly series for the hours 0, 1 and 24, with prices from base on
RoSeriesSet(base) ==
    { RoSeries("PT15M", <<1, 2, 3, 4>>, <<Num(base), Num(base + 4), Num(base + 8), Num(base + 12)>>),
      RoSeries("PT15M", <<1, 2>>, <<Num(base), Num(base + 4)>>),
      RoSeries("PT15M", <<5>>, <<Num(base + 8)>>),
      RoSeries("PT15M", <<97>>, <<Num(base)>>),
      RoSeries("PT15M", <<1, 2>>, <<BadNum, Num(base + 4)>>),
      RoSeries("PT60M", <<1>>, <<Num(base + 20)>>),
      RoSeries("PT60M", <<1, 2>>, <<Num(base + 20), Num(base + 30)>>),
      RoSeries("PT60M", <<25>>, <<Num(base)>>),
      RoSeries("PT60M", <<1, 2, 3>>, <<Num(base + 20), BadNum, Num(base + 40)>>),
      RoSeries("", <<3>>, <<Num(base + 5)>>) }

\* price documents of one and of two series
RoTestDocs ==
    {[wellformed |-> TRUE, series |-> <<ts>>] : ts \in RoSeriesSet(40)}
    \cup {[wellformed |-> TRUE, series |-> <<ts, us>>] : ts \in RoSeriesSet(40), us \in RoSeriesSet(200)}
    \cup {RoDocPrices, RoDocEmpty}

\* the delivery dates the period functions are called with: three years, one a leap year
PeriodDates ==
    {d \in {2024, 2025, 2026} \X (1..12) \X (1..31) : d[3] <= DaysInMonth(d[1], d[2])}

FnInit ==
    /\ fetcher = "entsoe"
    /\ Idle
    /\ call \in {[fn |-> "percentile", arg |-> a, out |-> <<>>, done |-> FALSE] : a \in PercentileArgs}
              \cup {[fn |-> "parse_and_aggregate", arg |-> d, out |-> <<>>, done |-> FALSE] : d \in TestDocs \cup ZeroDocs \cup MalformedDocs \cup PriceListDocs}
              \cup {[fn |-> "compute_stats", arg |-> GroupsOfKeys(gs), out |-> <<>>, done |-> FALSE] :
                       gs \in GroupDicts}
              \cup {[fn |-> "compute_stats", arg |-> g, out |-> <<>>, done |-> FALSE] : g \in PriceGroups}
              \cup {[fn |-> "parse_prices", arg |-> d, out |-> <<>>, done |-> FALSE] : d \in RoTestDocs}
              \cup {[fn |-> f, arg |-> d, out |-> <<>>, done |-> FALSE] :
                       f \in {"cet_to_utc_str", "eet_to_utc_str"}, d \in PeriodDates}

\* percentile of fetch_entsoe.py and of compute_entsoe_stats.py on the same list and rank
CallPercentile ==
    /\ call.fn = "percentile"
    /\ ~call.done
    /\ call' = [call EXCEPT !.done = TRUE,
                            !.out = [entsoe |-> percentile(call.arg[1], call.arg[2]),
                                     stats |-> stats_percentile(call.arg[1], call.arg[2])]]
    /\ UNCHANGED <<fetcher, tables, writes, run, pc, api_key, range, dates, i, product, existing,
                   loaded, attempt, result, locals, net, fetched, appended, startTables, prev>>

\* parse_and_aggregate(xml_str, delivery_date) on a well-formed document
CallParseAndAggregate ==
    /\ call.fn = "parse_and_aggregate"
    /\ ~call.done
    /\ call' = [call EXCEPT !.done = TRUE, !.out = parse_and_aggregate(call.arg, TestDate)]
    /\ UNCHANGED <<fetcher, tables, writes, run, pc, api_key, range, dates, i, product, existing,
                   loaded, attempt, result, locals, net, fetched, appended, startTables, prev>>

\* compute_stats(product, groups) of compute_entsoe_stats.py
CallComputeStats ==
    /\ call.fn = "compute_stats"
    /\ ~call.done
    /\ call' = [call EXCEPT !.done = TRUE, !.out = compute_stats(<<"a","f","r","r">>, call.arg)]
    /\ UNCHANGED <<fetcher, tables, writes, run, pc, api_key, range, dates, i, product, existing,
                   loaded, attempt, result, locals, net, fetched, appended, startTables, prev>>

\* parse_prices(xml_str, delivery_date) on a well-formed document
CallParsePrices ==
    /\ call.fn = "parse_prices"
    /\ ~call.done
    /\ call' = [call EXCEPT !.done = TRUE, !.out = parse_prices(call.arg, TestDate)]
    /\ UNCHANGED <<fetcher, tables, writes, run, pc, api_key, range, dates, i, product, existing,
                   loaded, attempt, result, locals, net, fetched, appended, startTables, prev>>

\* cet_to_utc_str(d) of fetch_entsoe.py
CallCetToUtc ==
    /\ call.fn = "cet_to_utc_str"
    /\ ~call.done
    /\ call' = [call EXCEPT !.done = TRUE, !.out = cet_to_utc_str(call.arg)]
    /\ UNCHANGED <<fetcher, tables, writes, run, pc, api_key, range, dates, i, product, existing,
                   loaded, attempt, result, locals, net, fetched, appended, startTables, prev>>

\* eet_to_utc_str(d) of fetch_ro_dam.py
CallEetToUtc ==
    /\ call.fn = "eet_to_utc_str"
    /\ ~call.done
    /\ call' = [call EXCEPT !.done = TRUE, !.out = eet_to_utc_str(call.arg)]
    /\ UNCHANGED <<fetcher, tables, writes, run, pc, api_key, range, dates, i, product, existing,
                   loaded, attempt, result, locals, net, fetched, appended, startTables, prev>>

FnNext ==
    \/ CallPercentile
    \/ CallParseAndAggregate
    \/ CallComputeStats
    \/ CallParsePrices
    \/ CallCetToUtc
    \/ CallEetToUtc

FnSpec == FnInit /\ [][FnNext]_vars

(***************************************************************************)
(* Vocabulary of the properties.                                           *)
(***************************************************************************)
IsPrefix(s, t) == Len(s) <= Len(t) /\ SubSeq(t, 1, Len(s)) = s

RECURSIVE Flatten(_)
Flatten(batches) == IF batches = <<>> THEN <<>> ELSE Head(batches) \o Flatten(Tail(batches))

\* the delivery dates that have rows in a table (its first row is the header)
DatesIn(tbl) == {tbl[k][1] : k \in 2..Len(tbl)}

\* the feed that owns a directory
FeedOf(dir) == IF dir \in {"hourly", "qh"} THEN "ote" ELSE IF dir = "ro_hourly" THEN "ro_dam" ELSE dir

HeaderOf(dir) ==
    IF dir \in {"afrr", "mfrr"} THEN CSV_HEADER
    ELSE IF dir = "ro_hourly" THEN RO_CSV_HEADER
    ELSE IF dir = "qh" THEN QH_HEADER ELSE HOURLY_HEADER

\* the ISO texts of the dates of the current range
RangeDates == {isoformat(dates[k]) : k \in 1..Len(dates)}

\* the rows of a table that carry the given date text
RowsOfDate(tbl, ds) == SelectSeq(tbl, LAMBDA row : row[1] = ds)

\* the table is its header followed by the batches written to it, in order
TableIsItsWrites(t) ==
    tables[t] = IF writes[t] = <<>> THEN <<>> ELSE <<HeaderOf(t[1])>> \o Flatten(writes[t])

\* C1: in every reachable state, each year-table is its header followed by the row
\* batches of the write_csv calls on it, every batch carries one delivery date, and no
\* two batches written to the same table carry the same delivery date.
OneRowSetPerDate ==
    \A t \in TableNames :
        /\ TableIsItsWrites(t)
        /\ \A a \in 1..Len(writes[t]) :
              /\ writes[t][a] # <<>>
              /\ \A k \in 1..Len(writes[t][a]) : writes[t][a][k][1] = writes[t][a][1][1]
              /\ \A b \in 1..Len(writes[t]) : a # b => writes[t][a][1][1] # writes[t][b][1][1]

\* a second invocation over a range with a date stored by the first has ended, and the
\* table has received batches from both invocations
OneRowSetPerDateWitness ==
    /\ run = 2
    /\ pc = "done"
    /\ \E t \in TableNames :
          /\ loaded[t] \cap RangeDates # {}
          /\ Len(writes[t]) >= 2
          /\ Len(startTables[t]) < Len(tables[t])

\* the existing sets of the table have been loaded by the current invocation
LoadedYet(t) ==
    /\ pc \in Running \cup {"done", "crashed"}
    /\ t[1] \in FeedDirs(IF fetcher = "entsoe" THEN PRODUCTS[1] ELSE fetcher)
       \/ (fetcher = "entsoe" /\ product = 2 /\ t[1] = PRODUCTS[2])

\* the date is in the loaded existing set of every table its feed keeps for it: for
\* fetch_ote the hourly table and, from 2025-10-01 on, the quarter-hourly table
InAllLoaded(t, ds) ==
    IF FeedOf(t[1]) = "ote"
    THEN /\ ds \in loaded[<<"hourly", t[2]>>]
         /\ ds \in loaded[<<"qh", t[2]>>] \/ StrLess(ds, QH_MARKET_START)
    ELSE ds \in loaded[t]

\* C2 as stated: a date that is in the loaded existing set of a year-table is neither
\* fetched nor appended to any table of its feed by the invocation.
SkipsLoadedDates ==
    \A t \in TableNames : \A ds \in loaded[t] :
        /\ <<FeedOf(t[1]), ds>> \notin fetched
        /\ \A u \in TableNames : FeedOf(u[1]) = FeedOf(t[1]) => <<u, ds>> \notin appended

\* C2 amended: a date that is in the loaded existing set of a year-table is never
\* appended to that table, and it is not fetched when it is in the loaded existing set of
\* every table its feed keeps for it.
SkipsLoadedDatesPerTable ==
    \A t \in TableNames : \A ds \in loaded[t] :
        /\ <<t, ds>> \notin appended
        /\ InAllLoaded(t, ds) => <<FeedOf(t[1]), ds>> \notin fetched

\* an invocation has gone past a date of its range that was in a loaded existing set
SkipsLoadedDatesWitness ==
    /\ pc = "done"
    /\ \E t \in TableNames : \E ds \in loaded[t] : ds \in RangeDates /\ InAllLoaded(t, ds)
    /\ fetched # {}

\* C3 as stated: when an invocation completes over the range of the completed invocation
\* before it, the tables are what they were when it started.
SecondRunChangesNothing ==
    (pc = "done" /\ prev.pc = "done" /\ prev.range = range) => tables = startTables

\* C3 amended: when an invocation completes over the range of the completed invocation
\* before it, every table still begins with its contents at the start, the rows added
\* belong to dates the table did not contain at the start, and fetch_entsoe and
\* fetch_ro_dam have added nothing.
SecondRunOnlyFillsGaps ==
    (pc = "done" /\ prev.pc = "done" /\ prev.range = range) =>
        /\ \A t \in TableNames :
              /\ IsPrefix(startTables[t], tables[t])
              /\ \A k \in (Len(startTables[t]) + 1)..Len(tables[t]) :
                    k > 1 => tables[t][k][1] \notin DatesIn(startTables[t])
        /\ fetcher \in {"entsoe", "ro_dam"} => tables = startTables

\* fetch_entsoe or fetch_ro_dam has completed twice over a range, and rows are stored
SecondRunOnlyFillsGapsWitness ==
    /\ pc = "done"
    /\ prev.pc = "done"
    /\ prev.range = range
    /\ fetcher \in {"entsoe", "ro_dam"}
    /\ api_key
    /\ \E t \in TableNames : Len(tables[t]) > 1 /\ loaded[t] \cap RangeDates # {}

\* the date of the latest network call has been dealt with by the loop body
Processed == net.date # <<>> /\ pc \in {"delay", "loop", "done"}

\* the year-table of the latest network call, per directory of its feed
NetTables == {t \in TableNames : FeedOf(t[1]) = FeedOf(net.feed) /\ t[2] = net.date[1]
                                  /\ (net.feed \in {"afrr", "mfrr"} => t[1] = net.feed)}

\* outcomes of one request
TransportFailure == {"http_error", "url_error"}

NoDataOutcome == {"http409", "no_matching_data", "empty_zip"}

\* the latest fetch of the percentile feed returned no data, or a document without bids
NoDataCase ==
    /\ net.feed \in {"afrr", "mfrr"}
    /\ \/ net.outcome \in NoDataOutcome
       \/ /\ net.outcome = "ok"
          /\ net.body.wellformed
          /\ parse_and_aggregate(net.body, isoformat(net.date)) = <<>>

Direction2 == { <<"d","o","w","n">>, <<"u","p">> }

\* twelve rows, one per block 0..5 and direction down/up, with count 0 and empty
\* max_price and percentile cells
IsPlaceholderSet(rows, ds) ==
    /\ Len(rows) = 12
    /\ \A b \in 0..5 : \A dir \in Direction2 :
          Cardinality({k \in 1..Len(rows) :
              /\ rows[k][1] = ds
              /\ rows[k][2] = <<DigitChar(b)>>
              /\ rows[k][3] = ZeroPad(NatStr(4 * b), 2) \o <<":","0","0">>
              /\ rows[k][4] = dir
              /\ rows[k][5] = <<"0">>
              /\ \A c \in 6..11 : rows[k][c] = <<>>}) = 1

AbandonsFailedDate ==
    (Processed /\ net.outcome \in TransportFailure) =>
        \A t \in NetTables :
            /\ <<t, isoformat(net.date)>> \notin appended
            /\ isoformat(net.date) \notin existing[t] \ loaded[t]

\* C6 as stated: an invocation that passed the credential check stops of its own accord
\* only after the loop has gone through every date (of every product), whatever the
\* requests ended in.
RunsToCompletion ==
    (pc \in {"done", "crashed"}
     /\ net.outcome \in {"", "ok", "bad_json"} \cup TransportFailure \cup NoDataOutcome) =>
        /\ pc = "done"
        /\ i = total
        /\ fetcher = "entsoe" => product = Len(PRODUCTS)

\* the invocation follows one that was killed, over the same range
ResumedAfterKill ==
    /\ prev.pc = "killed"
    /\ prev.range = range
    /\ pc \in Running \cup {"done", "crashed"}

\* the dates of the range that a table held when the invocation started
WrittenBefore(t) == DatesIn(startTables[t]) \cap RangeDates

\* the rows of the date are one whole batch of the table
CompleteBatch(t, ds) == \E a \in 1..Len(writes[t]) : writes[t][a] = RowsOfDate(tables[t], ds)

\* C7 as stated: in an invocation over the range of a killed one, every date written
\* before is still there as a complete batch in an unchanged prefix, is in the loaded
\* existing set, and is neither fetched nor appended.
ResumeSkipsWritten ==
    ResumedAfterKill =>
        \A t \in TableNames :
            /\ IsPrefix(startTables[t], tables[t])
            /\ \A ds \in WrittenBefore(t) :
                  /\ CompleteBatch(t, ds)
                  /\ LoadedYet(t) => ds \in loaded[t]
                  /\ <<FeedOf(t[1]), ds>> \notin fetched
                  /\ \A u \in TableNames : FeedOf(u[1]) = FeedOf(t[1]) => <<u, ds>> \notin appended

\* C7 amended: in an invocation over the range of a killed one, every date written to a
\* table before is still there as a complete batch in an unchanged prefix, is in the
\* loaded existing set of that table and is not appended to it again; it is not
\* fetched when it is in the loaded existing set of every table its feed keeps for it.
ResumeSkipsWrittenPerTable ==
    ResumedAfterKill =>
        \A t \in TableNames :
            /\ IsPrefix(startTables[t], tables[t])
            /\ \A ds \in WrittenBefore(t) :
                  /\ CompleteBatch(t, ds)
                  /\ LoadedYet(t) => ds \in loaded[t]
                  /\ <<t, ds>> \notin appended
                  /\ (LoadedYet(t) /\ InAllLoaded(t, ds)) => <<FeedOf(t[1]), ds>> \notin fetched

\* an invocation over the range of a killed one has completed, and the killed one had
\* written a date of the range
ResumeSkipsWrittenWitness ==
    /\ ResumedAfterKill
    /\ pc = "done"
    /\ \E t \in TableNames : WrittenBefore(t) # {}

\* the delay before a retry, in tenths of a second
BackoffOf(f) == IF f = "ote" THEN 20 ELSE 30

\* C8 as stated: there are at most two attempts, a retry follows only a transport
\* failure and the backoff sleep, and a success or a no-data outcome ends the fetch.
RetryOnlyAfterTransportFailure ==
    /\ attempt <= 1
    /\ pc = "backoff" => net.outcome \in TransportFailure
    /\ (pc = "fetch" /\ attempt >= 1) =>
          /\ net.outcome \in TransportFailure
          /\ net.date = d_cur
          /\ net.slept = "backoff"
          /\ net.secs = BackoffOf(fetcher)
    /\ net.outcome \in {"ok", "http409", "no_matching_data"} => ~(pc = "backoff")

\* what fetch_json retries after: any HTTP error (409 too), a URL/OS error, invalid JSON
RetryCause(f) == IF f = "ote" THEN TransportFailure \cup {"http409", "bad_json"} ELSE TransportFailure

\* C8 amended: there are at most two attempts; a retry follows only the backoff sleep
\* after a transport failure or, in fetch_ote, after an HTTP 409 or a body that is not
\* valid JSON; a success ends the fetch, and so does a no-data outcome in fetch_xml.
RetryOnlyAfterFailure ==
    /\ attempt <= 1
    /\ pc = "backoff" => net.outcome \in RetryCause(fetcher)
    /\ (pc = "fetch" /\ attempt >= 1) =>
          /\ net.outcome \in RetryCause(fetcher)
          /\ net.date = d_cur
          /\ net.slept = "backoff"
          /\ net.secs = BackoffOf(fetcher)
    /\ (net.outcome = "ok" \/ (fetcher # "ote" /\ net.outcome \in NoDataOutcome)) => ~(pc = "backoff")

\* a second attempt is about to be made
RetryOnlyAfterFailureWitness ==
    /\ pc = "fetch"
    /\ attempt = 1
    /\ net.slept = "backoff"

\* C9 as stated, in its conclusion: a network call for a date is issued only when the
\* rate-limit delay has been taken since the latest call for another date.
DelayBetweenDates ==
    (pc = "fetch" /\ net.date # <<>> /\ net.date # d_cur) => net.slept = "ratelimit"

\* C10: every step leaves the previous contents of each year-table as a prefix of its
\* new contents.
AppendOnly == [][\A t \in TableNames : IsPrefix(tables[t], tables'[t])]_vars

\* a table has received a second batch
AppendOnlyWitness == \E t \in TableNames : Len(writes[t]) >= 2 /\ Len(tables[t]) > 1 + Len(writes[t][1])

\* a text of the form YYYY-MM-DD
IsIsoDate(txt) ==
    /\ Len(txt) = 10
    /\ txt[5] = "-"
    /\ txt[8] = "-"
    /\ \A k \in {1, 2, 3, 4, 6, 7, 9, 10} : txt[k] \in {DigitChar(n) : n \in 0..9}

\* the ISO texts of the delivery dates of all ranges
DeliveryDateTexts ==
    UNION {{isoformat(date_range(r[1], r[2])[k]) : k \in 1..Len(date_range(r[1], r[2]))} : r \in Ranges}

\* C11: in every reachable state, a year-table that exists begins with the header row of
\* its directory, no later row is that header, and every later row has an ISO date
\* (a delivery date of some range) in its first column.
HeaderOnceThenDatedRows ==
    \A t \in TableNames :
        tables[t] # <<>> =>
            /\ tables[t][1] = HeaderOf(t[1])
            /\ \A k \in 2..Len(tables[t]) : tables[t][k] # HeaderOf(t[1])
            /\ \A ds \in DatesIn(tables[t]) : IsIsoDate(ds) /\ ds \in DeliveryDateTexts

\* a table created by an earlier invocation has received further rows from a later one
HeaderOnceThenDatedRowsWitness ==
    /\ run = 2
    /\ \E t \in TableNames :
          /\ Len(startTables[t]) > 1
          /\ Len(tables[t]) > Len(startTables[t])
          /\ Len(writes[t]) >= 2

\* C12: once fetch_entsoe or fetch_ro_dam has been started without an API key, it is at
\* its fatal exit, it has started no fetch and issued no request, it has written nothing,
\* and every table is what it was when the invocation started.
FatalWithoutKey ==
    (fetcher \in {"entsoe", "ro_dam"} /\ run > 0 /\ ~api_key) =>
        /\ pc = "fatal"
        /\ fetched = {}
        /\ net = NoCall
        /\ appended = {}
        /\ tables = startTables

\* an invocation without a key follows one with a key that stored rows
FatalWithoutKeyWitness ==
    /\ fetcher \in {"entsoe", "ro_dam"}
    /\ run = 2
    /\ ~api_key
    /\ \E t \in TableNames : Len(tables[t]) > 1

\* the latest fetch of fetch_ote brought no data: HTTP 409, JSON without the two series
\* expected, or series without points
OteNoData ==
    /\ net.feed = "ote"
    /\ \/ net.outcome = "http409"
       \/ /\ net.outcome = "ok"
          /\ LET parsed == parse_data(net.body, isoformat(net.date))
             IN ~parsed.ok \/ (parsed.qh_rows = <<>> /\ parsed.hourly_rows = <<>>)

\* the latest fetch of fetch_ro_dam brought no data: a no-data outcome of fetch_xml, or a
\* document without prices
RoNoData ==
    /\ net.feed = "ro_dam"
    /\ \/ net.outcome \in NoDataOutcome
       \/ /\ net.outcome = "ok"
          /\ net.body.wellformed
          /\ parse_prices(net.body, isoformat(net.date)) = <<>>

\* 24 rows, one per hour 0..23 in order, with an empty price
IsRoPlaceholderSet(rows, ds) ==
    /\ Len(rows) = 24
    /\ \A j \in 1..Len(rows) :
          /\ rows[j][1] = ds
          /\ rows[j][2] = NatStr(j - 1)
          /\ rows[j][4] = <<>>

\* C13 as stated: in the direct feeds (fetch_ro_dam, fetch_ote), after a fetch that brought
\* no data has been dealt with, no batch was written for its date and the date was not
\* added to an existing set.
SilentSkipOnNoData ==
    (Processed /\ (OteNoData \/ RoNoData)) =>
        \A t \in NetTables :
            /\ <<t, isoformat(net.date)>> \notin appended
            /\ isoformat(net.date) \notin existing[t] \ loaded[t]

\* C13 amended: after a fetch that brought no data has been dealt with, fetch_ote has
\* written no batch for the date and has not added it to an existing set, while
\* fetch_ro_dam has written the 24 placeholder rows of the date as the latest batch of
\* its year-table and has added the date to the existing set.
SilentSkipInOteOnly ==
    /\ (Processed /\ OteNoData) =>
          \A t \in NetTables :
              /\ <<t, isoformat(net.date)>> \notin appended
              /\ isoformat(net.date) \notin existing[t] \ loaded[t]
    /\ (Processed /\ RoNoData) =>
          LET t == <<"ro_hourly", net.date[1]>>
              ds == isoformat(net.date)
          IN /\ IsRoPlaceholderSet(RowsOfDate(tables[t], ds), ds)
             /\ writes[t] # <<>>
             /\ writes[t][Len(writes[t])] = RowsOfDate(tables[t], ds)
             /\ <<t, ds>> \in appended
             /\ ds \in existing[t]

\* fetch_ote has completed after an HTTP 409 for a date whose year-table holds another date
SilentSkipInOteOnlyWitness ==
    /\ Processed
    /\ OteNoData
    /\ net.outcome = "http409"
    /\ pc = "done"
    /\ \E t \in NetTables : Len(tables[t]) > 1

\* percentile has returned
PercentileDone == call.fn = "percentile" /\ call.done

\* the smallest and the largest element of a non-empty list
MinOf(sq) == CHOOSE x \in {sq[k] : k \in 1..Len(sq)} : \A k \in 1..Len(sq) : x <= sq[k]

MaxOf(sq) == CHOOSE x \in {sq[k] : k \in 1..Len(sq)} : \A k \in 1..Len(sq) : sq[k] <= x

\* C14: for every ascending list and rank, in both scripts, percentile of the empty list
\* is 0, percentile of a one-element list is its element, and for a non-empty list the
\* rank 0 gives the minimum and the rank 100 the maximum (results are in hundredths).
PercentileEnds ==
    PercentileDone =>
        LET sq == call.arg[1]
            p == call.arg[2]
        IN \A o \in {call.out.entsoe, call.out.stats} :
              /\ Len(sq) = 0 => o = 0
              /\ Len(sq) = 1 => o = 100 * sq[1]
              /\ (Len(sq) >= 1 /\ p = 0) => o = 100 * MinOf(sq)
              /\ (Len(sq) >= 1 /\ p = 100) => o = 100 * MaxOf(sq)

\* the rank 100 has been taken of a list of three or more prices that are not all equal
PercentileEndsWitness ==
    /\ PercentileDone
    /\ Len(call.arg[1]) >= 3
    /\ call.arg[2] = 100
    /\ MinOf(call.arg[1]) < MaxOf(call.arg[1])
    /\ call.out.entsoe = 100 * MaxOf(call.arg[1])

\* floor of k = p / 100 * (n - 1)
FloorK(p, n) == CHOOSE f \in 0..n : 100 * f <= p * (n - 1) /\ p * (n - 1) < 100 * (f + 1)

\* C15: for every ascending list of two or more prices and every rank in 10, 25, 50, 75,
\* 90, with k = p / 100 * (n - 1), percentile is element k (0-based) when k is an integer
\* and otherwise the element at floor(k) plus the fractional part of k times the step to
\* the next element; and both scripts return the same value.
PercentileInterpolates ==
    (PercentileDone /\ Len(call.arg[1]) >= 2 /\ call.arg[2] \in {10, 25, 50, 75, 90}) =>
        LET sq == call.arg[1]
            p == call.arg[2]
            n == Len(sq)
            f == FloorK(p, n)
            frac100 == p * (n - 1) - 100 * f
        IN /\ call.out.entsoe = IF frac100 = 0 THEN 100 * sq[f + 1]
                                ELSE 100 * sq[f + 1] + frac100 * (sq[f + 2] - sq[f + 1])
           /\ call.out.stats = call.out.entsoe

\* a rank has been taken that falls between two different prices
PercentileInterpolatesWitness ==
    /\ PercentileDone
    /\ Len(call.arg[1]) = 4
    /\ call.arg[2] = 25
    /\ call.arg[1][1] < call.arg[1][2]
    /\ call.out.entsoe > 100 * call.arg[1][1]
    /\ call.out.entsoe < 100 * call.arg[1][2]

\* parse_and_aggregate has returned
ParseDone == call.fn = "parse_and_aggregate" /\ call.done

\* the positions and the resolution of the Period of a series
Positions(ts) == [k \in 1..Len(ts.periods[1].points) |-> ts.periods[1].points[k].position.val]

ResolutionOf(ts) == ts.periods[1].resolution

\* the series declares an original but no standard market product type
FlagDiscarded(ts) == ts.has_original /\ ~ts.has_standard

\* the series matches none of the accepted encodings: 15-minute, or hourly with two or
\* more points of which one is off the 4-hour boundaries
Unmapped(ts) ==
    \/ ResolutionOf(ts) = "PT15M"
    \/ /\ ResolutionOf(ts) = "PT60M"
       /\ Len(Positions(ts)) >= 2
       /\ \E k \in 1..Len(Positions(ts)) : (Positions(ts)[k] - 1) % 4 # 0

\* the value read from a numeric field: 0 when it is not a number
ValueOf(field) == IF field.ok THEN field.val ELSE 0

\* the points of a series that carry a bid: quantity and price are not both zero
BidPoints(ts) ==
    {k \in 1..Len(ts.periods[1].points) :
        ~(ValueOf(ts.periods[1].points[k].quantity) = 0 /\ ValueOf(ts.periods[1].points[k].price) = 0)}

\* the number of observations a series is to contribute
ExpectedObs(ts) == IF FlagDiscarded(ts) \/ Unmapped(ts) THEN 0 ELSE Cardinality(BidPoints(ts))

\* the sum of the count column
TotalCount(rows) == SumSeq([k \in 1..Len(rows) |-> ParseNat(rows[k][5])])

Up == <<"u","p">>

BlockLabels ==
    << <<"0","0",":","0","0">>, <<"0","4",":","0","0">>, <<"0","8",":","0","0">>,
       <<"1","2",":","0","0">>, <<"1","6",":","0","0">>, <<"2","0",":","0","0">> >>

\* the prices of the observations of the series of a document that fall in a group
RECURSIVE PooledPrices(_, _, _)
PooledPrices(series, blk, dir) ==
    IF series = <<>> THEN <<>>
    ELSE LET own == SelectSeq(SeriesBids(Head(series)), LAMBDA b : b[1] = blk /\ b[3] = dir)
         IN [k \in 1..Len(own) |-> own[k][4]] \o PooledPrices(Tail(series), blk, dir)

\* the groups the series of a document bid in
GroupsOf(series) ==
    UNION {{<<SeriesBids(series[j])[k][1], SeriesBids(series[j])[k][3]>> :
               k \in 1..Len(SeriesBids(series[j]))} : j \in 1..Len(series)}

\* C16: the output of parse_and_aggregate has exactly one row per (block, direction) in
\* which any series of the document has a retained observation; its count is the number
\* of observations of all series in the group, its max_price their largest price and its
\* percentiles those of all their prices; for the two providers bidding 100 and 110 in
\* block 0 / up the row has count 2, max_price 110.00 and p50 105.00.
PoolsAcrossSeries ==
    ParseDone =>
        /\ Len(call.out) = Cardinality(GroupsOf(call.arg.series))
        /\ \A g \in GroupsOf(call.arg.series) :
              LET prices == PooledPrices(call.arg.series, g[1], g[2])
                  rows == SelectSeq(call.out, LAMBDA row : row[2] = NatStr(g[1]) /\ row[4] = g[2])
              IN /\ Len(rows) = 1
                 /\ rows[1][5] = NatStr(Len(prices))
                 /\ rows[1][6] = Fmt2f(100 * MaxOf(prices))
                 /\ rows[1][7] = Fmt2f(percentile(SortInts(prices), 10))
                 /\ rows[1][8] = Fmt2f(percentile(SortInts(prices), 25))
                 /\ rows[1][9] = Fmt2f(percentile(SortInts(prices), 50))
                 /\ rows[1][10] = Fmt2f(percentile(SortInts(prices), 75))
                 /\ rows[1][11] = Fmt2f(percentile(SortInts(prices), 90))
        /\ call.arg = DocBids =>
              /\ call.out[1][2] = <<"0">>
              /\ call.out[1][4] = Up
              /\ call.out[1][5] = <<"2">>
              /\ call.out[1][6] = <<"1","1","0",".","0","0">>
              /\ call.out[1][9] = <<"1","0","5",".","0","0">>

\* the document of the two providers has been aggregated
PoolsAcrossSeriesWitness ==
    /\ ParseDone
    /\ call.arg = DocBids
    /\ Len(call.out) = 2
    /\ call.out[1][5] = <<"2">>

\* the series is a full day in 4-hour-native encoding, or in hourly encoding at the
\* 4-hour boundaries
Native4H(ts) == ResolutionOf(ts) = "PT4H" /\ Positions(ts) = <<1, 2, 3, 4, 5, 6>>

SparseHourly(ts) == ResolutionOf(ts) = "PT60M" /\ Positions(ts) = <<1, 5, 9, 13, 17, 21>>

\* C17: a retained series with 4-hour resolution and positions 1..6, and a retained series
\* with hourly resolution and positions 1, 5, 9, 13, 17, 21, both give six rows whose
\* k-th row (k = 0..5) has block k, its label among 00:00, 04:00, 08:00, 12:00, 16:00,
\* 20:00, and the price of the k-th point; a document with one series of each encoding in
\* the same direction gives six rows of count 2.
SparseHourlyMapsLikeNative ==
    ParseDone =>
        /\ (Len(call.arg.series) = 1
            /\ ~FlagDiscarded(call.arg.series[1])
            /\ (Native4H(call.arg.series[1]) \/ SparseHourly(call.arg.series[1]))) =>
              /\ Len(call.out) = 6
              /\ \A k \in 0..5 :
                    /\ call.out[k + 1][2] = NatStr(k)
                    /\ call.out[k + 1][3] = BlockLabels[k + 1]
                    /\ call.out[k + 1][5] = <<"1">>
                    /\ call.out[k + 1][6] = Fmt2f(100 * call.arg.series[1].periods[1].points[k + 1].price.val)
        /\ (Len(call.arg.series) = 2
            /\ ~FlagDiscarded(call.arg.series[1]) /\ ~FlagDiscarded(call.arg.series[2])
            /\ Native4H(call.arg.series[1]) /\ SparseHourly(call.arg.series[2])
            /\ call.arg.series[1].direction_code = call.arg.series[2].direction_code) =>
              /\ Len(call.out) = 6
              /\ \A k \in 0..5 :
                    /\ call.out[k + 1][2] = NatStr(k)
                    /\ call.out[k + 1][3] = BlockLabels[k + 1]
                    /\ call.out[k + 1][5] = <<"2">>

\* a document with a 4-hour-native series and a sparse hourly series in one direction has
\* been aggregated into rows
SparseHourlyMapsLikeNativeWitness ==
    /\ ParseDone
    /\ Len(call.arg.series) = 2
    /\ ~FlagDiscarded(call.arg.series[1]) /\ ~FlagDiscarded(call.arg.series[2])
    /\ Native4H(call.arg.series[1]) /\ SparseHourly(call.arg.series[2])
    /\ call.arg.series[1].direction_code = call.arg.series[2].direction_code
    /\ Len(call.out) = 6

\* C18: a 15-minute series, and an hourly series with two or more points of which one is
\* off the 4-hour boundaries (the dense positions 1..24 among them), contributes no
\* observation: alone it gives no row, and beside another series the counts of the rows
\* add up to the observations of the other series.
DiscardsOtherEncodings ==
    ParseDone =>
        \A j \in 1..Len(call.arg.series) :
            Unmapped(call.arg.series[j]) =>
                /\ Len(call.arg.series) = 1 => call.out = <<>>
                /\ Len(call.arg.series) = 2 => TotalCount(call.out) = ExpectedObs(call.arg.series[3 - j])

\* a retained hourly series with the dense positions 1..24 has given no row
DiscardsOtherEncodingsWitness ==
    /\ ParseDone
    /\ Len(call.arg.series) = 1
    /\ ~FlagDiscarded(call.arg.series[1])
    /\ ResolutionOf(call.arg.series[1]) = "PT60M"
    /\ Len(Positions(call.arg.series[1])) = 24
    /\ call.out = <<>>

\* the document is one retained hourly series with exactly one point, which carries a bid
OneHourlyPoint ==
    /\ ParseDone
    /\ Len(call.arg.series) = 1
    /\ ~FlagDiscarded(call.arg.series[1])
    /\ ResolutionOf(call.arg.series[1]) = "PT60M"
    /\ Len(Positions(call.arg.series[1])) = 1
    /\ BidPoints(call.arg.series[1]) # {}

\* C19 as stated: an hourly series with exactly one point gives one row, in block 0 with
\* the label 00:00, whatever the position of the point.
SinglePointIsFlat ==
    OneHourlyPoint =>
        /\ Len(call.out) = 1
        /\ call.out[1][2] = <<"0">>
        /\ call.out[1][3] = BlockLabels[1]

\* C19 amended: an hourly series with exactly one point gives one row; the row is in
\* block 0 with the label 00:00 when the position p of the point is 1 or off the 4-hour
\* boundaries ((p - 1) mod 4 # 0), and in block (p - 1) / 4 with that block's label when
\* p is on a 4-hour boundary.
SinglePointOffBoundaryIsFlat ==
    OneHourlyPoint =>
        LET pos == Positions(call.arg.series[1])[1]
            blk == IF (pos - 1) % 4 = 0 THEN (pos - 1) \div 4 ELSE 0
        IN /\ Len(call.out) = 1
           /\ call.out[1][2] = NatStr(blk)
           /\ call.out[1][3] = BlockLabels[blk + 1]
           /\ call.out[1][5] = <<"1">>

\* an hourly series with its one point at position 7 has been put in block 0
SinglePointOffBoundaryIsFlatWitness ==
    /\ OneHourlyPoint
    /\ Positions(call.arg.series[1]) = <<7>>
    /\ call.out[1][2] = <<"0">>

\* C20: a series that declares an original but no standard market product type
\* contributes no observation whatever its resolution and points, and a series that
\* declares both, the standard type only, or neither contributes the observations of its
\* encoding: the counts of the rows add up to the observations of the series that are
\* not discarded, and a document of discarded series gives no row.
DiscardsOriginalOnly ==
    ParseDone =>
        /\ TotalCount(call.out) =
              SumSeq([j \in 1..Len(call.arg.series) |->
                         IF call.arg.series[j].has_original /\ ~call.arg.series[j].has_standard
                         THEN 0
                         ELSE IF Unmapped(call.arg.series[j]) THEN 0
                         ELSE Cardinality(BidPoints(call.arg.series[j]))])
        /\ (\A j \in 1..Len(call.arg.series) : FlagDiscarded(call.arg.series[j])) => call.out = <<>>

\* a 4-hour-native series declaring the original type only has given no row
DiscardsOriginalOnlyWitness ==
    /\ ParseDone
    /\ Len(call.arg.series) = 1
    /\ FlagDiscarded(call.arg.series[1])
    /\ Native4H(call.arg.series[1])
    /\ call.out = <<>>

\* the block an accepted encoding puts the k-th point of a series in
ExpectedBlock(ts, k) ==
    LET pos == Positions(ts)[k]
    IN IF ResolutionOf(ts) = "PT4H" THEN pos - 1
       ELSE IF \A j \in 1..Len(Positions(ts)) : (Positions(ts)[j] - 1) % 4 = 0 THEN (pos - 1) \div 4
       ELSE 0

\* C21: every row of parse_and_aggregate has a count of at least 1; the counts add up to
\* the points of the retained series that carry a bid (quantity and price not both zero);
\* and a document of one series in an accepted encoding has rows exactly for the blocks
\* of its points that carry a bid, so a block whose points are all zero has no row.
DropsZeroBids ==
    ParseDone =>
        /\ \A k \in 1..Len(call.out) : ParseNat(call.out[k][5]) >= 1
        /\ TotalCount(call.out) =
              SumSeq([j \in 1..Len(call.arg.series) |-> ExpectedObs(call.arg.series[j])])
        /\ (Len(call.arg.series) = 1 /\ ~FlagDiscarded(call.arg.series[1])
            /\ ~Unmapped(call.arg.series[1])) =>
              {ParseNat(call.out[k][2]) : k \in 1..Len(call.out)} =
                  {ExpectedBlock(call.arg.series[1], k) : k \in BidPoints(call.arg.series[1])}

\* a series of two points, of which only the second carries a bid, has given one row
DropsZeroBidsWitness ==
    /\ ParseDone
    /\ Len(call.arg.series) = 1
    /\ ~Unmapped(call.arg.series[1])
    /\ Len(Positions(call.arg.series[1])) = 2
    /\ BidPoints(call.arg.series[1]) = {2}
    /\ Len(call.out) = 1
    /\ call.out[1][5] = <<"1">>

\* compute_stats has returned
StatsDone == call.fn = "compute_stats" /\ call.done

\* the row comes before the other in the order (block as a number, direction)
RowBefore(a, b) ==
    \/ ParseNat(a[2]) < ParseNat(b[2])
    \/ ParseNat(a[2]) = ParseNat(b[2]) /\ StrLess(a[4], b[4])

\* C22: the rows of parse_and_aggregate are in strictly ascending order of (block index
\* as a number, direction), so no two of them share (date, block, block_start,
\* direction); the rows of compute_stats with a numeric block are in ascending order of
\* (block as a number, direction), and no two rows of compute_stats share (block,
\* block_start, direction).
RowsSortedAndUnique ==
    /\ ParseDone =>
          \A j \in 1..Len(call.out) : \A k \in 1..Len(call.out) :
              j < k =>
                 /\ RowBefore(call.out[j], call.out[k])
                 /\ SubSeq(call.out[j], 1, 4) # SubSeq(call.out[k], 1, 4)
    /\ StatsDone =>
          \A j \in 1..Len(call.out) : \A k \in 1..Len(call.out) :
              j < k =>
                 /\ (IsDigit(call.out[j][2]) /\ IsDigit(call.out[k][2])) =>
                        ~RowBefore(call.out[k], call.out[j])
                 /\ SubSeq(call.out[j], 2, 4) # SubSeq(call.out[k], 2, 4)

\* a series given with its blocks out of order, among them 2 and 10, has been aggregated
RowsSortedAndUniqueWitness ==
    /\ ParseDone
    /\ Len(call.arg.series) = 1
    /\ ResolutionOf(call.arg.series[1]) = "PT4H"
    /\ Len(call.out) = 24
    /\ call.out[3][2] = <<"2">>
    /\ call.out[11][2] = <<"1","0">>

\* parse_prices has returned
PricesDone == call.fn = "parse_prices" /\ call.done

\* the points of a series of the price document that are read: those with a numeric price
RoReadPoints(ts) == SelectSeq(ts.periods[1].points, LAMBDA pt : pt.price.ok)

\* the hour a point of the series falls in
RoHourOf(ts, pt) ==
    IF ts.periods[1].resolution = "PT15M" THEN (pt.position.val - 1) \div 4 ELSE pt.position.val - 1

\* the hours a series provides a value for
RoHours(ts) == {RoHourOf(ts, RoReadPoints(ts)[k]) : k \in 1..Len(RoReadPoints(ts))}

\* the hourly price, in hundredths, derived from one series alone: a quarter of each
\* quarter-hourly price of the hour, or the hourly price given last for the hour
DerivedAlone(ts, h) ==
    LET pts == SelectSeq(RoReadPoints(ts), LAMBDA pt : RoHourOf(ts, pt) = h)
    IN IF ts.periods[1].resolution = "PT15M"
       THEN 25 * SumSeq([k \in 1..Len(pts) |-> pts[k].price.val])
       ELSE 100 * pts[Len(pts)].price.val

\* the price cell of the row of an hour
PriceCell(rows, h) == SelectSeq(rows, LAMBDA row : row[2] = NatStr(h))[1][4]

\* C23 as stated: when both series of a price document provide a value for an hour, the
\* price stored for the hour is the one derived from the second series alone.
LastSeriesWins ==
    (PricesDone /\ Len(call.arg.series) = 2) =>
        \A h \in RoHours(call.arg.series[1]) \cap RoHours(call.arg.series[2]) :
            PriceCell(call.out, h) = Fmt2f(DerivedAlone(call.arg.series[2], h))

\* a period function has returned
PeriodDone == call.fn \in {"cet_to_utc_str", "eet_to_utc_str"} /\ call.done

\* the days of the last Sundays of March and of October, from the calendar
DstDays == [y \in {2024, 2025, 2026} |->
               IF y = 2024 THEN <<31, 27>> ELSE IF y = 2025 THEN <<30, 26>> ELSE <<29, 25>>]

\* the date is inside [dstStart, dstEnd) of its year
InSummerTime(d) ==
    /\ d[2] > 3 \/ (d[2] = 3 /\ d[3] >= DstDays[d[1]][1])
    /\ d[2] < 10 \/ (d[2] = 10 /\ d[3] < DstDays[d[1]][2])

\* the offset of local time from UTC on the date, in hours
OffsetOf(fn, d) ==
    IF fn = "cet_to_utc_str" THEN (IF InSummerTime(d) THEN 2 ELSE 1)
    ELSE (IF InSummerTime(d) THEN 3 ELSE 2)

\* the day before: the date whose next day is d
DayBefore(d) == CHOOSE e \in PeriodDates \cup {<<2023, 12, 31>>} : NextDay(e) = d

\* YYYYMMDDHHmm
Stamp(d, hour) ==
    NatStr(d[1]) \o ZeroPad(NatStr(d[2]), 2) \o ZeroPad(NatStr(d[3]), 2) \o ZeroPad(NatStr(hour), 2)
    \o <<"0","0">>

\* C24: for every delivery date d, the period start is local midnight of d minus the
\* summer offset (2 h for CET, 3 h for EET) when d is on or after the last Sunday of
\* March and before the last Sunday of October, and minus the winter offset (1 h, 2 h)
\* otherwise: the hour 24 - offset of the day before d; and the period end is the same
\* hour of d, 24 hours later.
PeriodIsLocalDay ==
    PeriodDone =>
        /\ call.out[1] = Stamp(DayBefore(call.arg), 24 - OffsetOf(call.fn, call.arg))
        /\ call.out[2] = Stamp(call.arg, 24 - OffsetOf(call.fn, call.arg))

\* the period of the last Sunday of March of 2025 has been computed for the CET feed
PeriodIsLocalDayWitness ==
    /\ PeriodDone
    /\ call.fn = "cet_to_utc_str"
    /\ call.arg = <<2025, 3, 30>>
    /\ call.out = << <<"2","0","2","5","0","3","2","9","2","2","0","0">>,
                     <<"2","0","2","5","0","3","3","0","2","2","0","0">> >>

\* a numeric field that is absent or not a number
Malformed(field) == ~field.ok

\* the document with every malformed quantity and price written as 0
ZeroField(field) == IF Malformed(field) THEN Num(0) ELSE field

ZeroedSeries(ts) ==
    [ts EXCEPT !.periods[1].points =
        [k \in 1..Len(@) |-> [@[k] EXCEPT !.quantity = ZeroField(@), !.price = ZeroField(@)]]]

Zeroed(doc) == [doc EXCEPT !.series = [j \in 1..Len(@) |-> ZeroedSeries(@[j])]]

\* the price document with every malformed price written as 0, and without the points
\* that have a malformed price
RoZeroed(doc) ==
    [doc EXCEPT !.series =
        [j \in 1..Len(@) |->
            [@[j] EXCEPT !.periods[1].points = [k \in 1..Len(@) |-> [@[k] EXCEPT !.price = ZeroField(@)]]]]]

RoWithoutMalformed(doc) ==
    [doc EXCEPT !.series =
        [j \in 1..Len(@) |->
            [@[j] EXCEPT !.periods[1].points = SelectSeq(@, LAMBDA pt : ~Malformed(pt.price))]]]

\* some point of the document has a malformed quantity or price
HasMalformedBid(doc) ==
    \E j \in 1..Len(doc.series) : \E k \in 1..Len(doc.series[j].periods[1].points) :
        \/ Malformed(doc.series[j].periods[1].points[k].quantity)
        \/ Malformed(doc.series[j].periods[1].points[k].price)

HasMalformedPrice(doc) ==
    \E j \in 1..Len(doc.series) : \E k \in 1..Len(doc.series[j].periods[1].points) :
        Malformed(doc.series[j].periods[1].points[k].price)

AppendedDates(t) ==
    LET from == IF Len(startTables[t]) = 0 THEN 2 ELSE Len(startTables[t]) + 1
    IN [k \in 1..(Len(tables[t]) + 1 - from) |-> tables[t][from + k - 1][1]]

\* the date has been dealt with by the current pass over the range: it was skipped, or
\* it was fetched and, in fetch_entsoe and fetch_ro_dam, its rows are in its table
Handled(d) ==
    IF fetcher = "ote"
    THEN \/ OteDone(isoformat(d), loaded[<<"qh", d[1]>>], loaded[<<"hourly", d[1]>>])
         \/ <<Feed, isoformat(d)>> \in fetched
    ELSE /\ isoformat(d) \in DatesIn(tables[<<product_dir, d[1]>>])
         /\ \/ isoformat(d) \in loaded[<<product_dir, d[1]>>]
            \/ /\ <<Feed, isoformat(d)>> \in fetched
               /\ <<<<product_dir, d[1]>>, isoformat(d)>> \in appended

\* the current pass has neither fetched the date nor written rows of it
Untouched(d) ==
    /\ <<Feed, isoformat(d)>> \notin fetched
    /\ \A dir \in FeedDirs(Feed) : <<<<dir, d[1]>>, isoformat(d)>> \notin appended

\* C26: while an invocation runs its loop over the dates (in fetch_entsoe: the loop of one
\* product), the dates of the range before the current one have been handled, the dates
\* after the current one have been neither fetched nor written, a date being fetched has
\* no rows appended yet, and the rows the invocation has appended to a year-table are in
\* ascending date order.
SequentialAscending ==
    /\ pc \in Running =>
          /\ \A j \in 1..Len(dates) : j <= i => Handled(dates[j])
          /\ \A j \in 1..Len(dates) : j > i + 1 => Untouched(dates[j])
          /\ pc \in {"fetch", "backoff", "fetched"} =>
                \A dir \in FeedDirs(Feed) : <<<<dir, year>>, date_str>> \notin appended
    /\ \A t \in TableNames :
          LET ad == AppendedDates(t)
          IN \A k \in 1..(Len(ad) - 1) : ad[k] = ad[k + 1] \/ StrLess(ad[k], ad[k + 1])

\* an invocation has come to its end after appending the rows of two dates to one table
SequentialAscendingWitness ==
    /\ pc = "done"
    /\ \E t \in TableNames :
          /\ AppendedDates(t) # <<>>
          /\ AppendedDates(t)[1] # AppendedDates(t)[Len(AppendedDates(t))]
          /\ Cardinality({x \in appended : x[1] = t}) = 2

\* C27: in every reachable state, every date in the existing set of a year-table is the
\* date of rows of that table, and a date that was not in the set when it was loaded has
\* had its rows written to the table by a write_csv call of the invocation.
ExistingHasRows ==
    \A t \in TableNames :
        /\ existing[t] \subseteq DatesIn(tables[t])
        /\ \A ds \in existing[t] \ loaded[t] :
              /\ <<t, ds>> \in appended
              /\ \E k \in 1..Len(writes[t]) : writes[t][k] # <<>> /\ writes[t][k][1][1] = ds

\* the existing set of a table holds a date that was loaded from the file and a date the
\* invocation has added
ExistingHasRowsWitness ==
    /\ pc \in Running
    /\ \E t \in TableNames :
          /\ loaded[t] # {}
          /\ existing[t] \ loaded[t] # {}

\* C28 as stated: every row of parse_and_aggregate has a block index in 0..5 and the
\* block start label HH:00 with HH = 4 * block index, and every row of parse_prices has an
\* hour in 0..23, whatever the positions of the points of the document are.
RowsInRange ==
    /\ ParseDone =>
          \A k \in 1..Len(call.out) :
              /\ ParseNat(call.out[k][2]) \in 0..5
              /\ call.out[k][3] = BlockLabels[ParseNat(call.out[k][2]) + 1]
    /\ PricesDone =>
          \A k \in 1..Len(call.out) : ParseNat(call.out[k][2]) \in 0..23

\* the year an ISO date text begins with
YearOfText(ds) == ParseNat(SubSeq(ds, 1, 4))

\* the date was passed over by the current pass without a fetch
SkippedDate(d) == <<Feed, isoformat(d)>> \notin fetched

\* C29: in every reachable state every row of a year-table has a delivery date of the
\* table's year, every write of the invocation went to the table of the date's year, the
\* existing set of a table holds dates of the table's year only, and a date the loop of
\* fetch_entsoe or fetch_ro_dam has passed was skipped exactly when the set loaded from
\* the table of the date's own year held it.
RowsInOwnYearTable ==
    /\ \A t \in TableNames :
          /\ \A ds \in DatesIn(tables[t]) : YearOfText(ds) = t[2]
          /\ \A ds \in existing[t] : YearOfText(ds) = t[2]
    /\ \A x \in appended : YearOfText(x[2]) = x[1][2]
    /\ (pc \in Running /\ fetcher # "ote") =>
          \A j \in 1..Len(dates) :
              j <= i => (SkippedDate(dates[j]) <=> isoformat(dates[j]) \in loaded[<<product_dir, dates[j][1]>>])

\* an invocation over a range that spans two years has come to its end after appending
\* rows to the tables of both years of one directory
RowsInOwnYearTableWitness ==
    /\ pc = "done"
    /\ range[1][1] # range[2][1]
    /\ \E t \in TableNames : \E u \in TableNames :
          /\ t[1] = u[1]
          /\ t[2] # u[2]
          /\ Len(tables[t]) > Len(startTables[t])
          /\ Len(tables[u]) > Len(startTables[u])

\* the tables of fetch_ote of the year of a date text
HourlyTable(ds) == <<"hourly", YearOfText(ds)>>

QhTable(ds) == <<"qh", YearOfText(ds)>>

BeforeQhMarket(ds) == StrLess(ds, <<"2","0","2","5","-","1","0","-","0","1">>)

\* C30: in fetch_ote, a date the loop has passed was skipped without a fetch exactly when
\* the hourly set held it and (the quarter-hourly set held it or it is before 2025-10-01);
\* rows of a date were appended only to a table whose set did not hold the date; and
\* over all invocations no table has received two batches of rows of one date.
OteTablesIndependent ==
    fetcher = "ote" =>
        /\ pc \in Running =>
              \A j \in 1..Len(dates) :
                  j <= i =>
                      LET ds == isoformat(dates[j])
                      IN SkippedDate(dates[j]) <=>
                            /\ ds \in loaded[HourlyTable(ds)]
                            /\ ds \in loaded[QhTable(ds)] \/ BeforeQhMarket(ds)
        /\ \A x \in appended : x[2] \notin loaded[x[1]]
        /\ \A t \in TableNames :
              \A a \in 1..Len(writes[t]) : \A b \in 1..Len(writes[t]) :
                  a < b => writes[t][a][1][1] # writes[t][b][1][1]

\* a date that was in the hourly set but not in the quarter-hourly set has been fetched
\* and has had rows appended to the quarter-hourly table only
OteTablesIndependentWitness ==
    /\ fetcher = "ote"
    /\ pc = "done"
    /\ \E x \in appended :
          /\ x[1] = QhTable(x[2])
          /\ x[2] \in loaded[HourlyTable(x[2])]
          /\ <<HourlyTable(x[2]), x[2]>> \notin appended
          /\ <<"ote", x[2]>> \in fetched

\* the number a cell written with two decimals stands for, in hundredths
Hundredths(txt) ==
    LET digits == SelectSeq(txt, LAMBDA c : c \notin {"-", "."})
    IN IF txt[1] = "-" THEN 0 - ParseNat(digits) ELSE ParseNat(digits)

\* min(prices) <= p10 <= p25 <= p50 <= p75 <= p90 <= max_price in a row
PercentilesOrdered(row, prices) ==
    /\ 100 * MinOf(prices) <= Hundredths(row[7])
    /\ \A c \in 7..10 : Hundredths(row[c]) <= Hundredths(row[c + 1])
    /\ Hundredths(row[11]) <= Hundredths(row[6])

\* the prices of the entry of the groups dict a row of compute_stats was made of
PricesOfRow(groups, row) ==
    LET own == SelectSeq(groups, LAMBDA g : g.key = <<row[2], row[3], row[4]>>)
    IN own[1].prices

\* C31: every row of parse_and_aggregate and every row of compute_stats satisfies
\* min(prices) <= p10 <= p25 <= p50 <= p75 <= p90 <= max_price, where prices are the
\* retained prices of the row's (block, direction) group, in whatever order they arrived.
PercentilesMonotone ==
    /\ ParseDone =>
          \A k \in 1..Len(call.out) :
              PercentilesOrdered(call.out[k],
                                 PooledPrices(call.arg.series, ParseNat(call.out[k][2]), call.out[k][4]))
    /\ StatsDone =>
          \A k \in 1..Len(call.out) : PercentilesOrdered(call.out[k], PricesOfRow(call.arg, call.out[k]))

\* a group of three prices that arrived out of order, one of them negative, has given a
\* row whose minimum, percentiles and maximum are all different
PercentilesMonotoneWitness ==
    /\ ParseDone
    /\ Len(call.out) = 1
    /\ call.out[1][5] = <<"3">>
    /\ PooledPrices(call.arg.series, 0, Up) = <<10, 0 - 5, 3>>
    /\ 0 - 500 < Hundredths(call.out[1][7])
    /\ Hundredths(call.out[1][7]) < 0
    /\ \A c \in 7..10 : Hundredths(call.out[1][c]) < Hundredths(call.out[1][c + 1])
    /\ Hundredths(call.out[1][11]) < Hundredths(call.out[1][6])
    /\ call.out[1][6] = <<"1","0",".","0","0">>

====
